---- MODULE Spec2Model ----
(***************************************************************************)
(* Canvas state engine of the widget playground (class CanvasState):       *)
(* widget placements, selection, configuration, the undo/redo history and  *)
(* the notifications the engine emits.                                     *)
(*                                                                         *)
(* Every public method is written as a sequence of code segments.  A       *)
(* segment is the code between two dispatchEvent calls; it returns the     *)
(* engine after the segment, the event it ends with (if any) and the       *)
(* label at which the method resumes once the listeners have returned.     *)
(* Run composes the segments of one call with listeners that do not call   *)
(* back into the engine; the re-entrant specification interleaves them     *)
(* with calls made by listeners.                                           *)
(***************************************************************************)
EXTENDS Integers, Sequences, FiniteSets, TLC

VARIABLES
    config,         \* _config
    widgets,        \* _widgets: Map in insertion order, a sequence of placements
    selectedId,     \* _selectedId (Null for null)
    nextZIndex,     \* _nextZIndex
    history,        \* _history
    historyIndex,   \* _historyIndex (0-based, as in the code)
    clock,          \* logical time read by createSnapshot, ticks on every history push
    events,         \* notifications dispatched by the current / last top-level call
    last,           \* the last completed top-level call: its name, id and result, the
                    \* number of placements before it, and the name of the call before it
    ncalls,         \* number of top-level calls made so far
    stack,          \* calls suspended in dispatchEvent, innermost last
    nested,         \* number of calls made by listeners so far
    issued,         \* what the engine has handed out: the id and zIndex of every
                    \* placement returned by addWidget, the last zIndex taken from
                    \* _nextZIndex, and whether the counter was reassigned since
    containers,     \* Canvas.containers: Map from placement id to WidgetContainer, in
                    \* insertion order; a container is its inline style, its selected
                    \* class, its content and its resize fields
    listeners,      \* the mousemove/mouseup listeners startResize has put on the
                    \* document: the container and the corner of each
    made,           \* the engine calls the last user gesture made, with their arguments
    element,        \* a BaseWidget element: _properties, its attributes, _initialized,
                    \* _renderPending, the animation-frame callbacks it has pending,
                    \* and what its last operation and its last render were
    timer,          \* a TimerWidget: its fields, the wall clock, its click listeners
    heap            \* the engine with its objects told apart: the objects by address,
                    \* and the engine's fields as addresses

engineVars == <<config, widgets, selectedId, nextZIndex, history, historyIndex, clock>>
vars == <<config, widgets, selectedId, nextZIndex, history, historyIndex, clock,
          events, last, ncalls, stack, nested, issued, containers, listeners, made,
          element, timer, heap>>

\* the Canvas element and its containers
canvasVars == <<containers, listeners, made>>

\* the widget elements
widgetVars == <<element, timer>>

\* what lies outside the engine
viewVars == <<canvasVars, widgetVars, heap>>

----------------------------------------------------------------------------
(* Bounds of the model *)

MaxIds == 2          \* number of distinct ids generateId can return
MaxCalls == 4        \* top-level calls explored with the full set of operations
CapPushes == 52      \* history pushes explored by the capacity specification
ReentrantCalls == 3  \* top-level calls explored when listeners call back
GridCalls == 2       \* top-level calls explored over the grid configurations
CanvasSteps == 4     \* user gestures and calls explored on the Canvas element
WidgetSteps == 4     \* calls, attribute changes and frames explored on one element
TimerSteps == 7      \* clicks, ticks, waits and (dis)connections explored on one timer
MaxConnects == 2     \* times the timer element is put into the document
MaxNested == 2       \* calls made by listeners in one explored sequence
ObjectCalls == 4     \* calls explored on the engine with its objects told apart

(* Program constants *)

maxHistory == 50

Null == 0
IdPool == 1 .. MaxIds

DEFAULT_CONFIG ==
    [width |-> 1200, height |-> 800, gridSize |-> 20, snapToGrid |-> TRUE, showGrid |-> TRUE]

DEFAULT_WIDGET_SIZE == [width |-> 200, height |-> 150]

DEFAULT_POSITION == [x |-> 100, y |-> 100]

EmptyProperties == [k \in {} |-> 0]

----------------------------------------------------------------------------
(* Object spread and Map helpers *)

\* { ...a, ...b }
Merge(a, b) ==
    [k \in (DOMAIN a) \cup (DOMAIN b) |-> IF k \in DOMAIN b THEN b[k] ELSE a[k]]

\* Map.has
MapHas(ws, id) == \E i \in 1 .. Len(ws) : ws[i].id = id

MapIndex(ws, id) == CHOOSE i \in 1 .. Len(ws) : ws[i].id = id

\* Map.get (only used where MapHas holds)
MapGet(ws, id) == ws[MapIndex(ws, id)]

\* Map.set: an existing key keeps its place in the insertion order
MapSet(ws, w) ==
    IF MapHas(ws, w.id)
    THEN [ws EXCEPT ![MapIndex(ws, w.id)] = w]
    ELSE Append(ws, w)

\* Map.delete
MapDelete(ws, id) ==
    IF MapHas(ws, id)
    THEN LET i == MapIndex(ws, id)
         IN SubSeq(ws, 1, i - 1) \o SubSeq(ws, i + 1, Len(ws))
    ELSE ws

\* an optional argument is <<>> (undefined) or <<value>>; this is  arg || dflt
OrDefault(arg, dflt) == IF arg = <<>> THEN dflt ELSE arg[1]

Max(a, b) == IF a >= b THEN a ELSE b

\* Math.round(v / g) for integers v and g > 0 (halves round up)
MathRound(v, g) == (2 * v + g) \div (2 * g)

----------------------------------------------------------------------------
(* The engine as one record, and the private helpers of CanvasState *)

Engine ==
    [config |-> config, widgets |-> widgets, selectedId |-> selectedId,
     nextZIndex |-> nextZIndex, history |-> history, historyIndex |-> historyIndex,
     clock |-> clock]

canUndo(e) == e.historyIndex > 0

canRedo(e) == e.historyIndex < Len(e.history) - 1

\* snapPosition that rounds down
snapPositionTruncates(e, position) ==
    IF ~e.config.snapToGrid \/ e.config.gridSize = 0
    THEN position
    ELSE LET grid == e.config.gridSize
         IN [x |-> (position.x \div grid) * grid,
             y |-> (position.y \div grid) * grid]

snapPosition(e, position) ==
    IF ~e.config.snapToGrid \/ e.config.gridSize = 0
    THEN position
    ELSE LET grid == e.config.gridSize
         IN [x |-> MathRound(position.x, grid) * grid,
             y |-> MathRound(position.y, grid) * grid]

\* snapSize without the floor at one grid cell
snapSizeWithoutFloor(e, size) ==
    IF ~e.config.snapToGrid \/ e.config.gridSize = 0
    THEN size
    ELSE LET grid == e.config.gridSize
         IN [width |-> MathRound(size.width, grid) * grid,
             height |-> MathRound(size.height, grid) * grid]

snapSize(e, size) ==
    IF ~e.config.snapToGrid \/ e.config.gridSize = 0
    THEN size
    ELSE LET grid == e.config.gridSize
         IN [width |-> Max(grid, MathRound(size.width, grid) * grid),
             height |-> Max(grid, MathRound(size.height, grid) * grid)]

\* name is <<"Initial">>, <<"Export">> or <<"Snapshot", n>>; the timestamp is the
\* logical clock; placements are copied by value
createSnapshot(e, name) ==
    [name |-> name, timestamp |-> e.clock, config |-> e.config, widgets |-> e.widgets]

DefaultName(e) == <<"Snapshot", Len(e.history) + 1>>

RECURSIVE RestoreWidgets(_, _, _)
\* the loop of restoreSnapshot over snapshot.widgets: <<_widgets, _nextZIndex>>
RestoreWidgets(rest, ws, next) ==
    IF rest = <<>>
    THEN <<ws, next>>
    ELSE LET w == Head(rest)
         IN RestoreWidgets(Tail(rest), MapSet(ws, w),
                           IF w.zIndex >= next THEN w.zIndex + 1 ELSE next)

\* restoreSnapshot that leaves the counter at its initial value
restoreSnapshotResetsCounter(e, snapshot) ==
    LET r == RestoreWidgets(snapshot.widgets, <<>>, 1)
    IN [e EXCEPT !.config = snapshot.config,
                 !.widgets = r[1],
                 !.selectedId = Null,
                 !.nextZIndex = 1]

\* restoreSnapshot that leaves the configuration as it is
restoreSnapshotKeepsConfig(e, snapshot) ==
    LET r == RestoreWidgets(snapshot.widgets, <<>>, 1)
    IN [e EXCEPT !.widgets = r[1],
                 !.selectedId = Null,
                 !.nextZIndex = r[2]]

\* restoreSnapshot up to (not including) its emit
restoreSnapshot(e, snapshot) ==
    LET r == RestoreWidgets(snapshot.widgets, <<>>, 1)
    IN [e EXCEPT !.config = snapshot.config,
                 !.widgets = r[1],
                 !.selectedId = Null,
                 !.nextZIndex = r[2]]

\* saveHistory that keeps the redo branch
saveHistoryKeepsFuture(e) ==
    LET ticked == [e EXCEPT !.clock = @ + 1]
        pushed == Append(e.history, createSnapshot(ticked, DefaultName(ticked)))
    IN IF Len(pushed) > maxHistory
       THEN [ticked EXCEPT !.history = Tail(pushed), !.historyIndex = Len(pushed) - 2]
       ELSE [ticked EXCEPT !.history = pushed, !.historyIndex = Len(pushed) - 1]

\* saveHistory without the size limit
saveHistoryNoLimit(e) ==
    LET truncated == IF e.historyIndex < Len(e.history) - 1
                     THEN SubSeq(e.history, 1, e.historyIndex + 1)
                     ELSE e.history
        ticked    == [e EXCEPT !.history = truncated, !.clock = @ + 1]
        pushed    == Append(truncated, createSnapshot(ticked, DefaultName(ticked)))
    IN [ticked EXCEPT !.history = pushed, !.historyIndex = Len(pushed) - 1]

\* saveHistory that shifts the history but not the index
saveHistoryStaleIndex(e) ==
    LET truncated == IF e.historyIndex < Len(e.history) - 1
                     THEN SubSeq(e.history, 1, e.historyIndex + 1)
                     ELSE e.history
        ticked    == [e EXCEPT !.history = truncated, !.clock = @ + 1]
        pushed    == Append(truncated, createSnapshot(ticked, DefaultName(ticked)))
    IN IF Len(pushed) > maxHistory
       THEN [ticked EXCEPT !.history = Tail(pushed), !.historyIndex = Len(pushed) - 1]
       ELSE [ticked EXCEPT !.history = pushed, !.historyIndex = Len(pushed) - 1]

saveHistory(e) ==
    LET truncated == IF e.historyIndex < Len(e.history) - 1
                     THEN SubSeq(e.history, 1, e.historyIndex + 1)
                     ELSE e.history
        ticked    == [e EXCEPT !.history = truncated, !.clock = @ + 1]
        pushed    == Append(truncated, createSnapshot(ticked, DefaultName(ticked)))
    IN IF Len(pushed) > maxHistory
       THEN [ticked EXCEPT !.history = Tail(pushed), !.historyIndex = Len(pushed) - 2]
       ELSE [ticked EXCEPT !.history = pushed, !.historyIndex = Len(pushed) - 1]

(* emit: the event as the listeners see it *)
emit(type, id) == <<[type |-> type, widgetId |-> id]>>

NoEmit == <<>>

\* result of one code segment
Result(e, ev, pc, ret) == [e |-> e, emit |-> ev, pc |-> pc, ret |-> ret]


----------------------------------------------------------------------------
(* The public methods, segment by segment.  c is the call (its arguments), pc
   the label the call is at: "start", or the label after one of its emits. *)

\* addWidget that does not advance the counter
addWidgetKeepsCounter(e, c, pc) ==
    LET placement == [id         |-> c.id,
                      tag        |-> c.tag,
                      position   |-> snapPosition(e, OrDefault(c.position, DEFAULT_POSITION)),
                      size       |-> OrDefault(c.size, DEFAULT_WIDGET_SIZE),
                      properties |-> OrDefault(c.properties, EmptyProperties),
                      zIndex     |-> e.nextZIndex]
        set == [e EXCEPT !.widgets = MapSet(@, placement)]
    IN Result(saveHistory(set), emit("widget-add", c.id), "done", "placement")

\* c: [op, id (the generated id), tag, position, size, properties]
addWidget(e, c, pc) ==
    LET placement == [id         |-> c.id,
                      tag        |-> c.tag,
                      position   |-> snapPosition(e, OrDefault(c.position, DEFAULT_POSITION)),
                      size       |-> OrDefault(c.size, DEFAULT_WIDGET_SIZE),
                      properties |-> OrDefault(c.properties, EmptyProperties),
                      zIndex     |-> e.nextZIndex]
        set == [e EXCEPT !.widgets = MapSet(@, placement), !.nextZIndex = @ + 1]
    IN Result(saveHistory(set), emit("widget-add", c.id), "done", "placement")

\* removeWidget without the early return for an unknown id
removeWidgetUnchecked(e, c, pc) ==
    IF pc = "start"
    THEN LET deleted == [e EXCEPT !.widgets = MapDelete(@, c.id)]
         IN IF e.selectedId = c.id
            THEN Result([deleted EXCEPT !.selectedId = Null],
                        emit("widget-deselect", c.id), "deselected", "true")
            ELSE Result(saveHistory(deleted), emit("widget-remove", c.id), "done", "true")
    ELSE Result(saveHistory(e), emit("widget-remove", c.id), "done", "true")

\* removeWidget that forgets the selection
removeWidgetKeepsSelection(e, c, pc) ==
    IF ~MapHas(e.widgets, c.id)
    THEN Result(e, NoEmit, "done", "false")
    ELSE Result(saveHistory([e EXCEPT !.widgets = MapDelete(@, c.id)]),
                emit("widget-remove", c.id), "done", "true")

\* c: [op, id]
removeWidget(e, c, pc) ==
    IF pc = "start"
    THEN IF ~MapHas(e.widgets, c.id)
         THEN Result(e, NoEmit, "done", "false")
         ELSE LET deleted == [e EXCEPT !.widgets = MapDelete(@, c.id)]
              IN IF e.selectedId = c.id
                 THEN Result([deleted EXCEPT !.selectedId = Null],
                             emit("widget-deselect", c.id), "deselected", "true")
                 ELSE Result(saveHistory(deleted), emit("widget-remove", c.id), "done", "true")
    ELSE Result(saveHistory(e), emit("widget-remove", c.id), "done", "true")

\* c: [op, id, position]
moveWidget(e, c, pc) ==
    IF ~MapHas(e.widgets, c.id)
    THEN Result(e, NoEmit, "done", "false")
    ELSE LET widget == MapGet(e.widgets, c.id)
             snapped == snapPosition(e, c.position)
             moved == [e EXCEPT !.widgets = MapSet(@, [widget EXCEPT !.position = snapped])]
         IN Result(saveHistory(moved), emit("widget-move", c.id), "done", "true")

\* c: [op, id, size]
resizeWidget(e, c, pc) ==
    IF ~MapHas(e.widgets, c.id)
    THEN Result(e, NoEmit, "done", "false")
    ELSE LET widget == MapGet(e.widgets, c.id)
             snapped == snapSize(e, c.size)
             resized == [e EXCEPT !.widgets = MapSet(@, [widget EXCEPT !.size = snapped])]
         IN Result(saveHistory(resized), emit("widget-resize", c.id), "done", "true")

\* updateWidgetProperties that replaces the properties by the partial
updateWidgetPropertiesReplaces(e, c, pc) ==
    IF ~MapHas(e.widgets, c.id)
    THEN Result(e, NoEmit, "done", "false")
    ELSE LET widget == MapGet(e.widgets, c.id)
             merged == [widget EXCEPT !.properties = c.properties]
         IN Result([e EXCEPT !.widgets = MapSet(@, merged)],
                   emit("canvas-change", c.id), "done", "true")

\* c: [op, id, properties]
updateWidgetProperties(e, c, pc) ==
    IF ~MapHas(e.widgets, c.id)
    THEN Result(e, NoEmit, "done", "false")
    ELSE LET widget == MapGet(e.widgets, c.id)
             merged == [widget EXCEPT !.properties = Merge(@, c.properties)]
         IN Result([e EXCEPT !.widgets = MapSet(@, merged)],
                   emit("canvas-change", c.id), "done", "true")

\* selectWidget whose bring-to-front does not advance the counter
SelectTailKeepsCounter(e, c) ==
    LET selected == [e EXCEPT !.selectedId = c.id]
    IN IF c.id # Null
       THEN IF MapHas(selected.widgets, c.id)
            THEN LET widget == MapGet(selected.widgets, c.id)
                     front == [selected EXCEPT
                                  !.widgets = MapSet(@, [widget EXCEPT !.zIndex = e.nextZIndex])]
                 IN Result(front, emit("widget-select", c.id), "done", "void")
            ELSE Result(selected, emit("widget-select", c.id), "done", "void")
       ELSE Result(selected, NoEmit, "done", "void")

\* the part of selectWidget after the widget-deselect emit
SelectTail(e, c) ==
    LET selected == [e EXCEPT !.selectedId = c.id]
    IN IF c.id # Null
       THEN IF MapHas(selected.widgets, c.id)
            THEN LET widget == MapGet(selected.widgets, c.id)
                     front == [selected EXCEPT
                                  !.widgets = MapSet(@, [widget EXCEPT !.zIndex = e.nextZIndex]),
                                  !.nextZIndex = @ + 1]
                 IN Result(front, emit("widget-select", c.id), "done", "void")
            ELSE Result(selected, emit("widget-select", c.id), "done", "void")
       ELSE Result(selected, NoEmit, "done", "void")

\* selectWidget that emits widget-deselect whenever something was selected
selectWidgetAlwaysDeselects(e, c, pc) ==
    IF pc = "start" /\ e.selectedId # Null
    THEN Result(e, emit("widget-deselect", e.selectedId), "deselected", "void")
    ELSE SelectTail(e, c)

\* c: [op, id (Null for null)]
selectWidget(e, c, pc) ==
    IF pc = "start" /\ e.selectedId # Null /\ e.selectedId # c.id
    THEN Result(e, emit("widget-deselect", e.selectedId), "deselected", "void")
    ELSE SelectTail(e, c)

\* setConfig that appends to the history
setConfigSavesHistory(e, c, pc) ==
    Result(saveHistory([e EXCEPT !.config = Merge(@, c.partial)]),
           emit("canvas-change", Null), "done", "void")

\* c: [op, id (Null), partial]
setConfig(e, c, pc) ==
    Result([e EXCEPT !.config = Merge(@, c.partial)], emit("canvas-change", Null), "done", "void")

\* clear that leaves the counter where it is
clearKeepsCounter(e, c, pc) ==
    LET cleared == [e EXCEPT !.widgets = <<>>, !.selectedId = Null]
    IN Result(saveHistory(cleared), emit("canvas-change", Null), "done", "void")

\* c: [op, id (Null)]
clear(e, c, pc) ==
    LET cleared == [e EXCEPT !.widgets = <<>>, !.selectedId = Null, !.nextZIndex = 1]
    IN Result(saveHistory(cleared), emit("canvas-change", Null), "done", "void")

\* undo that restores the current entry when there is nothing to undo
undoRestoresAtBoundary(e, c, pc) ==
    LET moved == IF canUndo(e) THEN [e EXCEPT !.historyIndex = @ - 1] ELSE e
    IN Result(restoreSnapshot(moved, moved.history[moved.historyIndex + 1]),
              emit("canvas-change", Null), "done",
              IF canUndo(e) THEN "true" ELSE "false")

\* undo that never goes back to the initial snapshot
undoStopsEarly(e, c, pc) ==
    IF e.historyIndex <= 1
    THEN Result(e, NoEmit, "done", "false")
    ELSE LET moved == [e EXCEPT !.historyIndex = @ - 1]
         IN Result(restoreSnapshot(moved, moved.history[moved.historyIndex + 1]),
                   emit("canvas-change", Null), "done", "true")

\* c: [op, id (Null)]
undo(e, c, pc) ==
    IF ~canUndo(e)
    THEN Result(e, NoEmit, "done", "false")
    ELSE LET moved == [e EXCEPT !.historyIndex = @ - 1]
         IN Result(restoreSnapshot(moved, moved.history[moved.historyIndex + 1]),
                   emit("canvas-change", Null), "done", "true")

\* redo that moves the cursor without restoring
redoMovesCursorOnly(e, c, pc) ==
    IF ~canRedo(e)
    THEN Result(e, NoEmit, "done", "false")
    ELSE Result([e EXCEPT !.historyIndex = @ + 1], emit("canvas-change", Null), "done", "true")

\* c: [op, id (Null)]
redo(e, c, pc) ==
    IF ~canRedo(e)
    THEN Result(e, NoEmit, "done", "false")
    ELSE LET moved == [e EXCEPT !.historyIndex = @ + 1]
         IN Result(restoreSnapshot(moved, moved.history[moved.historyIndex + 1]),
                   emit("canvas-change", Null), "done", "true")

\* the public restoreSnapshot; c: [op, id (Null), data]
restore(e, c, pc) ==
    Result(restoreSnapshot(e, c.data), emit("canvas-change", Null), "done", "void")

\* fromJSON that restores without appending to the history
fromJSONWithoutHistory(e, c, pc) ==
    Result(restoreSnapshot(e, c.data), emit("canvas-change", Null), "done", "void")

\* c: [op, id (Null), data]
fromJSON(e, c, pc) ==
    IF pc = "start"
    THEN Result(restoreSnapshot(e, c.data), emit("canvas-change", Null), "restored", "void")
    ELSE Result(saveHistory(e), NoEmit, "done", "void")

\* toJSON that exports the snapshot at the history cursor
toJSONLastSaved(e) == [e.history[e.historyIndex + 1] EXCEPT !.name = <<"Export">>]

toJSON(e) == createSnapshot(e, <<"Export">>)

\* one segment of call c at label pc
Segment(e, c, pc) ==
    CASE c.op = "addWidget"              -> addWidget(e, c, pc)
      [] c.op = "removeWidget"           -> removeWidget(e, c, pc)
      [] c.op = "moveWidget"             -> moveWidget(e, c, pc)
      [] c.op = "resizeWidget"           -> resizeWidget(e, c, pc)
      [] c.op = "updateWidgetProperties" -> updateWidgetProperties(e, c, pc)
      [] c.op = "selectWidget"           -> selectWidget(e, c, pc)
      [] c.op = "setConfig"              -> setConfig(e, c, pc)
      [] c.op = "clear"                  -> clear(e, c, pc)
      [] c.op = "undo"                   -> undo(e, c, pc)
      [] c.op = "redo"                   -> redo(e, c, pc)
      [] c.op = "restoreSnapshot"        -> restore(e, c, pc)
      [] c.op = "fromJSON"               -> fromJSON(e, c, pc)

RECURSIVE RunFrom(_, _, _, _)
\* the whole call when no listener calls back into the engine
RunFrom(e, c, pc, evs) ==
    LET r == Segment(e, c, pc)
    IN IF r.pc = "done"
       THEN [e |-> r.e, events |-> evs \o r.emit, ret |-> r.ret]
       ELSE RunFrom(r.e, c, r.pc, evs \o r.emit)

Run(e, c) == RunFrom(e, c, "start", <<>>)


----------------------------------------------------------------------------
(* Construction, and the arguments the operations are explored with *)

\* new CanvasState(): the initial snapshot is pushed by the constructor
constructor ==
    LET fresh == [config |-> DEFAULT_CONFIG, widgets |-> <<>>, selectedId |-> Null,
                  nextZIndex |-> 1, history |-> <<>>, historyIndex |-> -1, clock |-> 0]
    IN [fresh EXCEPT !.history = <<createSnapshot(fresh, <<"Initial">>)>>,
                     !.historyIndex = 0]

\* new CanvasState(partial)
construct(partial) ==
    LET fresh == [config |-> Merge(DEFAULT_CONFIG, partial), widgets |-> <<>>,
                  selectedId |-> Null, nextZIndex |-> 1, history |-> <<>>,
                  historyIndex |-> -1, clock |-> 0]
    IN [fresh EXCEPT !.history = <<createSnapshot(fresh, <<"Initial">>)>>,
                     !.historyIndex = 0]

\* generateId: a string built from Date.now() and Math.random(); any id of the pool
generateId == IdPool

DefaultAdd == [tag |-> "timer-widget", position |-> <<>>, size |-> <<>>, properties |-> <<>>]

AddArgs ==
    {[tag |-> "timer-widget", position |-> <<[x |-> 105, y |-> 213]>>,
      size |-> <<[width |-> 50, height |-> 30]>>, properties |-> <<[count |-> 0, unit |-> "s"]>>]}

MovePositions == {[x |-> 30, y |-> 50]}

ResizeSizes == {[width |-> 5, height |-> 130]}

PropertyUpdates == {[count |-> 5, label |-> "test"]}

ConfigUpdates == {[snapToGrid |-> FALSE]}

\* a well-formed document written outside the engine
ImportDoc ==
    [name |-> <<"Export">>, timestamp |-> 0,
     config |-> [DEFAULT_CONFIG EXCEPT !.width = 800, !.height = 600],
     widgets |-> <<[id |-> 1, tag |-> "timer-widget", position |-> [x |-> 200, y |-> 200],
                    size |-> DEFAULT_WIDGET_SIZE, properties |-> EmptyProperties,
                    zIndex |-> 3]>>]

\* the documents a caller hands to restoreSnapshot / fromJSON: the external one
\* and an export of the current state
Documents == {ImportDoc, toJSON(Engine)}

----------------------------------------------------------------------------
(* A widget element (BaseWidget.ts), with the property schema of the
   CounterWidget of BaseWidget.test.ts.  A JavaScript value is a record that
   carries its type. *)

Num(n) == [t |-> "number", n |-> n, s |-> "", b |-> FALSE]

Str(s) == [t |-> "string", n |-> 0, s |-> s, b |-> FALSE]

Bool(b) == [t |-> "boolean", n |-> 0, s |-> "", b |-> b]

Undefined == [t |-> "undefined", n |-> 0, s |-> "", b |-> FALSE]

\* static properties
properties ==
    [count |-> [type |-> "number", default |-> Num(0)],
     label |-> [type |-> "string", default |-> Str("Count")],
     disabled |-> [type |-> "boolean", default |-> Bool(FALSE)]]

PropNames == DOMAIN properties

\* the numbers used, and String(n) of each
Numbers == {0, 5, 10}

String(n) == CASE n = 0 -> "0" [] n = 5 -> "5" [] n = 10 -> "10"

\* parseFloat, NaN being turned into undefined by coerceValue
parseFloat(str) ==
    IF \E n \in Numbers : String(n) = str
    THEN Num(CHOOSE n \in Numbers : String(n) = str)
    ELSE Undefined

validateType(value, type) == value.t = type

\* validateProperty: no property of the schema is required or has a validator
validateProperty(name, value) ==
    value.t = "undefined" \/ validateType(value, properties[name].type)

\* coerceValue: an attribute (<<>> for null) read as a value of the type
coerceValue(attr, type) ==
    IF attr = <<>> THEN Undefined
    ELSE CASE type = "string" -> Str(attr[1])
           [] type = "number" -> parseFloat(attr[1])
           [] type = "boolean" -> Bool(attr[1] \in {"", "true", "1"})

\* serializeValue: the attribute for a value (<<>> for null)
serializeValue(value, type) ==
    IF value.t = "undefined" THEN <<>>
    ELSE CASE type = "string" -> <<value.s>>
           [] type = "number" -> <<String(value.n)>>
           [] type = "boolean" -> IF value.b THEN <<"">> ELSE <<>>

getDefaultProperties == [name \in PropNames |-> properties[name].default]

\* requestRender: one requestAnimationFrame while none is pending
requestRender(el) ==
    IF el.renderPending
    THEN [el EXCEPT !.requests = @ + 1]
    ELSE [el EXCEPT !.renderPending = TRUE, !.frames = @ + 1, !.requests = @ + 1]

\* the end of _setProperty: property-change is emitted, and an initialized
\* widget gets onPropertyChange and requestRender
Changed(el) ==
    IF el.initialized THEN requestRender([el EXCEPT !.changes = @ + 1])
    ELSE [el EXCEPT !.changes = @ + 1]

\* _setProperty(name, value, false)
setPropertyOnly(el, name, value) ==
    IF ~validateProperty(name, value) THEN [el EXCEPT !.errors = @ + 1]
    ELSE IF el.properties[name] = value THEN el
    ELSE Changed([el EXCEPT !.properties[name] = value])

\* attributeChangedCallback, run inside setAttribute and removeAttribute
attributeChangedCallback(el, name, oldValue, newValue) ==
    IF oldValue = newValue THEN el
    ELSE IF name \notin PropNames THEN el
    ELSE setPropertyOnly(el, name, coerceValue(newValue, properties[name].type))

\* element.setAttribute(name, value), or removeAttribute for <<>>
setAttribute(el, name, value) ==
    attributeChangedCallback([el EXCEPT !.attributes[name] = value],
                             name, el.attributes[name], value)

\* setProperty: _setProperty(name, value, true)
setProperty(el, name, value) ==
    IF name \notin PropNames THEN el
    ELSE IF ~validateProperty(name, value) THEN [el EXCEPT !.errors = @ + 1]
    ELSE IF el.properties[name] = value THEN el
    ELSE Changed(setAttribute([el EXCEPT !.properties[name] = value], name,
                              serializeValue(value, properties[name].type)))

RECURSIVE setProperties(_, _)
\* setProperties: setProperty for each entry of props, in order
setProperties(el, props) ==
    IF props = <<>> THEN el
    ELSE setProperties(setProperty(el, Head(props)[1], Head(props)[2]), Tail(props))

RECURSIVE parseAttributes(_, _)
\* _parseAttributes, over the property names left
parseAttributes(el, names) ==
    IF names = {} THEN el
    ELSE LET name == CHOOSE n \in names : TRUE
             coerced == coerceValue(el.attributes[name], properties[name].type)
         IN parseAttributes(IF coerced # Undefined
                            THEN [el EXCEPT !.properties[name] = coerced]
                            ELSE el,
                            names \ {name})

\* _initialize: the attributes are parsed, onInit, the first render is requested
initialize(el) ==
    requestRender(parseAttributes([el EXCEPT !.initialized = TRUE], PropNames))

\* connectedCallback
connectedCallback(el) == IF ~el.initialized THEN initialize(el) ELSE el

\* the frame callback of requestRender, and _doRender
frameCallback(el) ==
    [el EXCEPT !.renderPending = FALSE, !.renders = @ + 1,
               !.shown = el.properties]

\* the frame callback with _renderPending cleared only after _doRender
frameCallbackClearsAfter(el, props, early) ==
    LET changed == setProperties([el EXCEPT !.renders = @ + 1], props)
    IN [changed EXCEPT !.renderPending = FALSE,
                       !.shown = IF early THEN changed.properties ELSE el.properties]

\* the frame callback of a widget whose render() sets properties: props are set
\* before (early) or after render() has read the values it shows
frameCallbackRendering(el, props, early) ==
    LET changed == setProperties([el EXCEPT !.renderPending = FALSE, !.renders = @ + 1],
                                 props)
    IN [changed EXCEPT !.shown = IF early THEN changed.properties ELSE el.properties]

RECURSIVE runFrames(_, _)
\* the browser runs the frame callbacks that are pending
runFrames(el, n) == IF n = 0 THEN el ELSE runFrames(frameCallback(el), n - 1)

\* document.createElement(tag): the constructor
NewElement ==
    [properties |-> getDefaultProperties,
     attributes |-> [name \in PropNames |-> <<>>],
     initialized |-> FALSE, renderPending |-> FALSE,
     frames |-> 0, requests |-> 0, renders |-> 0, changes |-> 0, errors |-> 0,
     shown |-> getDefaultProperties, op |-> "constructor", props |-> <<>>]

\* the arguments setProperties is explored with
PropertyLists ==
    {<<<<"count", Num(5)>>, <<"label", Str("Test")>>>>,
     <<<<"count", Num(10)>>>>,
     <<<<"disabled", Bool(TRUE)>>>>,
     <<<<"disabled", Bool(FALSE)>>>>,
     <<<<"count", Str("abc")>>>>,
     <<<<"size", Num(5)>>>>}

\* the attribute values setAttribute is explored with (<<>>: removeAttribute)
AttributeValues == {<<>>, <<"10">>, <<"abc">>, <<"">>}

----------------------------------------------------------------------------
(* The TimerWidget (TimerWidget.ts).  Times are in milliseconds. *)

\* document.createElement('timer-widget'): the field initialisers, with the
\* default properties (duration 60, mode countdown).  intervalId is whether an
\* interval is set, due the time its callback is next due, now is Date.now(),
\* clicks the number of click listeners on the shadow root; ran and pausedFor
\* are the wall-clock time spent in state running and in state paused since
\* elapsed was last zeroed.
NewTimer ==
    [timerState |-> "idle", elapsed |-> 0, intervalId |-> FALSE, lastTick |-> 0,
     mode |-> "countdown", initialized |-> FALSE, connected |-> FALSE,
     now |-> 0, due |-> 0, clicks |-> 0, finished |-> 0, ran |-> 0,
     pausedFor |-> 0,
     op |-> "constructor"]

\* get duration: the default 60 seconds, in ms
duration == 60 * 1000

\* get remaining
remaining(t) ==
    IF t.mode = "stopwatch" THEN t.elapsed ELSE Max(0, duration - t.elapsed)

\* stop: clearInterval
stop(t) == [t EXCEPT !.intervalId = FALSE]

\* reset
reset(t) ==
    [stop(t) EXCEPT !.elapsed = 0, !.timerState = "idle", !.ran = 0, !.pausedFor = 0]

\* finish that leaves the interval set
finishKeepsInterval(t) == [t EXCEPT !.timerState = "finished", !.finished = @ + 1]

\* finish: timer-finished is emitted
finish(t) == [stop(t) EXCEPT !.timerState = "finished", !.finished = @ + 1]

\* start that leaves lastTick as it was
startKeepsLastTick(t) ==
    IF t.timerState = "running" THEN t
    ELSE [(IF t.timerState = "finished" THEN reset(t) ELSE t)
             EXCEPT !.timerState = "running",
                    !.intervalId = TRUE, !.due = t.now + 100]

\* start: setInterval(callback, 100)
start(t) ==
    IF t.timerState = "running" THEN t
    ELSE [(IF t.timerState = "finished" THEN reset(t) ELSE t)
             EXCEPT !.timerState = "running", !.lastTick = t.now,
                    !.intervalId = TRUE, !.due = t.now + 100]

\* pause
pause(t) ==
    IF t.timerState # "running" THEN t
    ELSE [t EXCEPT !.timerState = "paused", !.intervalId = FALSE]

\* toggleMode: setProperty('mode', newMode), reset
toggleMode(t) ==
    reset([t EXCEPT !.mode = IF t.mode = "countdown" THEN "stopwatch" ELSE "countdown"])

\* the callback of setInterval
intervalCallback(t) ==
    LET ticked == [t EXCEPT !.lastTick = t.now,
                            !.elapsed = @ + (t.now - t.lastTick),
                            !.due = t.now + 100]
    IN IF ticked.mode = "countdown" /\ remaining(ticked) <= 0
       THEN finish(ticked)
       ELSE ticked

\* one click listener of connectedCallback, for the data-action of the target
onClick(t, action) ==
    CASE action = "start" -> start(t)
      [] action = "pause" -> pause(t)
      [] action = "reset" -> reset(t)
      [] action = "toggle-mode" -> toggleMode(t)

RECURSIVE click(_, _, _)
\* a click in the shadow root: every listener added by a connectedCallback runs
click(t, action, n) == IF n = 0 THEN t ELSE click(onClick(t, action), action, n - 1)

----------------------------------------------------------------------------
(* The engine with its objects told apart (class CanvasState).  objs is the
   heap: an object's address is its index.  A placement object holds the
   addresses of its position, size and properties objects; _config, the Map's
   values and the fields of a snapshot are addresses.  pushed and exported
   keep, for every snapshot of the history and for the last export, what it
   recorded when it was made. *)

\* an object literal or spread: the heap with the new object at the last address
new(h, obj) == [h EXCEPT !.objs = Append(@, obj)]

latest(h) == Len(h.objs)

RECURSIVE spreadEach(_, _, _)
\* .map(w => ({ ...w })) over the placements at addrs: <<heap, addresses of the copies>>
spreadEach(h, addrs, out) ==
    IF addrs = <<>>
    THEN <<h, out>>
    ELSE LET copied == new(h, h.objs[Head(addrs)])
         IN spreadEach(copied, Tail(addrs), Append(out, latest(copied)))

\* createSnapshot that stores the live placement objects themselves
createSnapshotOfLive(h) ==
    LET c == new(h, h.objs[h.config])
    IN <<c, [config |-> latest(c), widgets |-> h.widgets]>>

\* createSnapshot: <<heap, snapshot>>
createSnapshotObjects(h) ==
    LET c == new(h, h.objs[h.config])
        w == spreadEach(c, h.widgets, <<>>)
    IN <<w[1], [config |-> latest(c), widgets |-> w[2]]>>

\* what a snapshot records: its configuration and its placements, with the
\* objects they refer to
Recorded(objs, snapshot) ==
    [config  |-> objs[snapshot.config],
     widgets |-> [i \in 1 .. Len(snapshot.widgets) |->
                    LET w == objs[snapshot.widgets[i]]
                    IN [id |-> w.id, tag |-> w.tag, zIndex |-> w.zIndex,
                        position |-> objs[w.position], size |-> objs[w.size],
                        properties |-> objs[w.properties]]]]

\* restoreSnapshot, of a snapshot made by this engine (its ids are distinct)
restoreSnapshotObjects(h, snapshot) ==
    LET c == new(h, h.objs[snapshot.config])
        w == spreadEach(c, snapshot.widgets, <<>>)
        restored == [i \in 1 .. Len(snapshot.widgets) |-> h.objs[snapshot.widgets[i]]]
    IN [w[1] EXCEPT !.config = latest(c),
                    !.widgets = w[2],
                    !.selectedId = Null,
                    !.nextZIndex = RestoreWidgets(restored, <<>>, 1)[2]]

saveHistoryObjects(h) ==
    LET keep      == h.historyIndex + 1
        truncated == IF h.historyIndex < Len(h.history) - 1
                     THEN [h EXCEPT !.history = SubSeq(@, 1, keep),
                                    !.pushed = SubSeq(@, 1, keep)]
                     ELSE h
        s         == createSnapshotObjects(truncated)
        history_  == Append(truncated.history, s[2])
        pushed_   == Append(truncated.pushed, Recorded(s[1].objs, s[2]))
    IN IF Len(history_) > maxHistory
       THEN [s[1] EXCEPT !.history = Tail(history_), !.pushed = Tail(pushed_),
                         !.historyIndex = Len(history_) - 2]
       ELSE [s[1] EXCEPT !.history = history_, !.pushed = pushed_,
                         !.historyIndex = Len(history_) - 1]

\* _widgets.has(id), and the address _widgets.get(id) returns
has(h, id) == \E i \in 1 .. Len(h.widgets) : h.objs[h.widgets[i]].id = id

get(h, id) == h.widgets[CHOOSE i \in 1 .. Len(h.widgets) : h.objs[h.widgets[i]].id = id]

\* snapPosition of the object at address p: that object, or a new one
snapPositionObject(h, p) ==
    LET e == [config |-> h.objs[h.config]]
    IN IF ~e.config.snapToGrid \/ e.config.gridSize = 0
       THEN <<h, p>>
       ELSE <<new(h, snapPosition(e, h.objs[p])), latest(h) + 1>>

\* snapSize of the object at address p: that object, or a new one
snapSizeObject(h, p) ==
    LET e == [config |-> h.objs[h.config]]
    IN IF ~e.config.snapToGrid \/ e.config.gridSize = 0
       THEN <<h, p>>
       ELSE <<new(h, snapSize(e, h.objs[p])), latest(h) + 1>>

\* addWidget; c: [tag, position, size, properties], the caller's objects
addWidgetObjects(h, c) ==
    LET p  == new(h, OrDefault(c.position, DEFAULT_POSITION))
        sp == snapPositionObject(p, latest(p))
        sz == new(sp[1], OrDefault(c.size, DEFAULT_WIDGET_SIZE))
        pr == new(sz, OrDefault(c.properties, EmptyProperties))
        w  == new(pr, [id |-> h.ids + 1, tag |-> c.tag, position |-> sp[2],
                       size |-> latest(sz), properties |-> latest(pr),
                       zIndex |-> h.nextZIndex])
    IN saveHistoryObjects([w EXCEPT !.widgets = Append(@, latest(w)),
                                    !.nextZIndex = @ + 1,
                                    !.ids = @ + 1])

removeWidgetObjects(h, id) ==
    IF ~has(h, id) THEN h
    ELSE saveHistoryObjects([h EXCEPT !.widgets = SelectSeq(@, LAMBDA a : a # get(h, id)),
                                      !.selectedId = IF @ = id THEN Null ELSE @])

\* widget.position = snapped
moveWidgetObjects(h, id, position) ==
    IF ~has(h, id) THEN h
    ELSE LET p  == new(h, position)
             sp == snapPositionObject(p, latest(p))
         IN saveHistoryObjects([sp[1] EXCEPT !.objs[get(h, id)].position = sp[2]])

\* widget.size = snapped
resizeWidgetObjects(h, id, size) ==
    IF ~has(h, id) THEN h
    ELSE LET p  == new(h, size)
             sp == snapSizeObject(p, latest(p))
         IN saveHistoryObjects([sp[1] EXCEPT !.objs[get(h, id)].size = sp[2]])

\* widget.properties = { ...widget.properties, ...properties }
updateWidgetPropertiesObjects(h, id, update) ==
    IF ~has(h, id) THEN h
    ELSE LET m == new(h, Merge(h.objs[h.objs[get(h, id)].properties], update))
         IN [m EXCEPT !.objs[get(h, id)].properties = latest(m)]

\* widget.zIndex = this._nextZIndex++
selectWidgetObjects(h, id) ==
    IF id # Null /\ has(h, id)
    THEN [h EXCEPT !.selectedId = id,
                   !.objs[get(h, id)].zIndex = h.nextZIndex,
                   !.nextZIndex = @ + 1]
    ELSE [h EXCEPT !.selectedId = id]

\* this._config = { ...this._config, ...config }
setConfigObjects(h, partial) ==
    LET c == new(h, Merge(h.objs[h.config], partial))
    IN [c EXCEPT !.config = latest(c)]

undoObjects(h) ==
    IF h.historyIndex > 0
    THEN restoreSnapshotObjects([h EXCEPT !.historyIndex = @ - 1], h.history[h.historyIndex])
    ELSE h

redoObjects(h) ==
    IF h.historyIndex < Len(h.history) - 1
    THEN restoreSnapshotObjects([h EXCEPT !.historyIndex = @ + 1], h.history[h.historyIndex + 2])
    ELSE h

\* toJSON: the caller keeps the snapshot it returns
toJSONObjects(h) ==
    LET s == createSnapshotObjects(h)
    IN [s[1] EXCEPT !.exported = <<[snapshot |-> s[2], recorded |-> Recorded(s[1].objs, s[2])]>>]

\* new CanvasState()
NewCanvasState ==
    LET fresh == [objs |-> <<DEFAULT_CONFIG>>, config |-> 1, widgets |-> <<>>,
                  selectedId |-> Null, nextZIndex |-> 1, history |-> <<>>,
                  historyIndex |-> -1, pushed |-> <<>>, exported |-> <<>>,
                  ids |-> 0, op |-> "constructor"]
        s == createSnapshotObjects(fresh)
    IN [s[1] EXCEPT !.history = <<s[2]>>, !.pushed = <<Recorded(s[1].objs, s[2])>>,
                    !.historyIndex = 0]

----------------------------------------------------------------------------
(* Top-level calls whose listeners do not call back into the engine *)

Install(e) ==
    /\ config' = e.config
    /\ widgets' = e.widgets
    /\ selectedId' = e.selectedId
    /\ nextZIndex' = e.nextZIndex
    /\ history' = e.history
    /\ historyIndex' = e.historyIndex
    /\ clock' = e.clock

Logged(c, ret) ==
    [op |-> c.op, id |-> c.id, ret |-> ret, before |-> Len(widgets), prev |-> last.op]

\* the methods that take a value from _nextZIndex, and those that assign it
CounterOps == {"addWidget", "selectWidget"}

ResetOps == {"clear", "undo", "redo", "restoreSnapshot", "fromJSON"}

\* the record of what was handed out, after the code of call c that started at
\* label pc took the engine from e to r.e
Issue(e, c, pc, r) ==
    IF c.op \in CounterOps /\ r.e.nextZIndex = e.nextZIndex + 1
    THEN [returned |-> IF c.op = "addWidget"
                       THEN Append(issued.returned,
                                   [id |-> c.id, zIndex |-> MapGet(r.e.widgets, c.id).zIndex])
                       ELSE issued.returned,
          z        |-> MapGet(r.e.widgets, c.id).zIndex,
          fresh    |-> FALSE]
    ELSE IF c.op \in ResetOps /\ pc = "start" /\ r.ret # "false"
         THEN [issued EXCEPT !.fresh = TRUE]
         ELSE issued

\* no Canvas is attached to the engine
InitView ==
    /\ containers = <<>>
    /\ listeners = <<>>
    /\ made = <<>>
    /\ element = NewElement
    /\ timer = NewTimer
    /\ heap = NewCanvasState

\* the call c, from its first statement to its return
Call(c) ==
    LET r == Run(Engine, c)
    IN /\ stack = <<>>
       /\ Install(r.e)
       /\ events' = r.events
       /\ last' = Logged(c, r.ret)
       /\ issued' = Issue(Engine, c, "start", r)
       /\ UNCHANGED <<stack, nested, viewVars>>

\* sequences of at most MaxCalls calls are explored
More == ncalls < MaxCalls

Do(c) ==
    /\ ncalls' = ncalls + 1
    /\ Call(c)

AddWidget ==
    /\ More
    /\ \E id \in generateId, a \in AddArgs :
          Do([op |-> "addWidget", id |-> id, tag |-> a.tag, position |-> a.position,
              size |-> a.size, properties |-> a.properties])

RemoveWidget ==
    /\ More
    /\ \E id \in IdPool : Do([op |-> "removeWidget", id |-> id])

MoveWidget ==
    /\ More
    /\ \E id \in IdPool, p \in MovePositions :
          Do([op |-> "moveWidget", id |-> id, position |-> p])

ResizeWidget ==
    /\ More
    /\ \E id \in IdPool, s \in ResizeSizes :
          Do([op |-> "resizeWidget", id |-> id, size |-> s])

UpdateWidgetProperties ==
    /\ More
    /\ \E id \in IdPool, p \in PropertyUpdates :
          Do([op |-> "updateWidgetProperties", id |-> id, properties |-> p])

SelectWidget ==
    /\ More
    /\ \E id \in IdPool \cup {Null} : Do([op |-> "selectWidget", id |-> id])

SetConfig ==
    /\ More
    /\ \E p \in ConfigUpdates : Do([op |-> "setConfig", id |-> Null, partial |-> p])

Clear ==
    /\ More
    /\ Do([op |-> "clear", id |-> Null])

Undo ==
    /\ More
    /\ Do([op |-> "undo", id |-> Null])

Redo ==
    /\ More
    /\ Do([op |-> "redo", id |-> Null])

RestoreSnapshot ==
    /\ More
    /\ \E d \in Documents : Do([op |-> "restoreSnapshot", id |-> Null, data |-> d])

FromJSON ==
    /\ More
    /\ \E d \in Documents : Do([op |-> "fromJSON", id |-> Null, data |-> d])

ToJSON ==
    /\ More
    /\ stack = <<>>
    /\ ncalls' = ncalls + 1
    /\ events' = <<>>
    /\ last' = Logged([op |-> "toJSON", id |-> Null], "snapshot")
    /\ UNCHANGED <<engineVars, stack, nested, issued, viewVars>>

Init ==
    /\ config = constructor.config
    /\ widgets = constructor.widgets
    /\ selectedId = constructor.selectedId
    /\ nextZIndex = constructor.nextZIndex
    /\ history = constructor.history
    /\ historyIndex = constructor.historyIndex
    /\ clock = constructor.clock
    /\ events = <<>>
    /\ last = [op |-> "constructor", id |-> Null, ret |-> "void", before |-> 0,
               prev |-> "none"]
    /\ ncalls = 0
    /\ stack = <<>>
    /\ nested = 0
    /\ issued = [returned |-> <<>>, z |-> 0, fresh |-> FALSE]
    /\ InitView

Next ==
    \/ AddWidget
    \/ RemoveWidget
    \/ MoveWidget
    \/ ResizeWidget
    \/ UpdateWidgetProperties
    \/ SelectWidget
    \/ SetConfig
    \/ Clear
    \/ Undo
    \/ Redo
    \/ RestoreSnapshot
    \/ FromJSON
    \/ ToJSON

Spec == Init /\ [][Next]_vars


----------------------------------------------------------------------------
(* The history at its capacity: one placement is added, moved, resized and
   removed, a document imported and the canvas cleared, over and over, until
   the history is full; undo and redo walk the full history. *)

\* the id of the one placement used here
Only == CHOOSE id \in IdPool : \A other \in IdPool : id <= other

\* a history-appending call of the fill cycle
Fill(c) ==
    /\ clock < CapPushes
    /\ Call(c)
    /\ UNCHANGED ncalls

CapAddWidget ==
    /\ widgets = <<>>
    /\ nextZIndex = 1
    /\ Fill([op |-> "addWidget", id |-> Only, tag |-> DefaultAdd.tag,
             position |-> DefaultAdd.position, size |-> DefaultAdd.size,
             properties |-> DefaultAdd.properties])

CapMoveWidget ==
    /\ \E p \in MovePositions :
          /\ Len(widgets) = 1
          /\ widgets[1].position = snapPosition(Engine, DEFAULT_POSITION)
          /\ Fill([op |-> "moveWidget", id |-> Only, position |-> p])

CapResizeWidget ==
    /\ \E s \in ResizeSizes :
          /\ Len(widgets) = 1
          /\ widgets[1].position \notin {snapPosition(Engine, DEFAULT_POSITION),
                                         ImportDoc.widgets[1].position}
          /\ widgets[1].size = DEFAULT_WIDGET_SIZE
          /\ Fill([op |-> "resizeWidget", id |-> Only, size |-> s])

CapRemoveWidget ==
    /\ Len(widgets) = 1
    /\ widgets[1].size # DEFAULT_WIDGET_SIZE
    /\ Fill([op |-> "removeWidget", id |-> Only])

CapFromJSON ==
    /\ widgets = <<>>
    /\ nextZIndex > 1
    /\ Fill([op |-> "fromJSON", id |-> Null, data |-> ImportDoc])

CapClear ==
    /\ Len(widgets) = 1
    /\ widgets[1].position = ImportDoc.widgets[1].position
    /\ Fill([op |-> "clear", id |-> Null])

CapUndo ==
    /\ Len(history) = maxHistory
    /\ Call([op |-> "undo", id |-> Null])
    /\ UNCHANGED ncalls

CapRedo ==
    /\ Len(history) = maxHistory
    /\ Call([op |-> "redo", id |-> Null])
    /\ UNCHANGED ncalls

NextCap ==
    \/ CapAddWidget
    \/ CapMoveWidget
    \/ CapResizeWidget
    \/ CapRemoveWidget
    \/ CapFromJSON
    \/ CapClear
    \/ CapUndo
    \/ CapRedo

SpecCap == Init /\ [][NextCap]_vars


----------------------------------------------------------------------------
(* Listeners that call back into the engine.  dispatchEvent is synchronous: a
   call that emits is suspended on the stack while the listeners of its event
   run and may call the engine; when the listeners have returned the call
   resumes at its label. *)

Frame(c, r, before) == [call |-> c, pc |-> r.pc, ret |-> r.ret, before |-> before]

Completed(f) ==
    [op |-> f.call.op, id |-> f.call.id, ret |-> f.ret, before |-> f.before,
     prev |-> last.op]

\* the user may make another call, or a running listener may
MayEnter ==
    \/ stack = <<>> /\ ncalls < ReentrantCalls
    \/ stack # <<>> /\ nested < MaxNested

\* a call made by the user (empty stack) or by a listener that is running
Enter(c) ==
    LET r == Segment(Engine, c, "start")
        f == Frame(c, r, Len(widgets))
    IN /\ Install(r.e)
       /\ events' = (IF stack = <<>> THEN <<>> ELSE events) \o r.emit
       /\ stack' = IF r.emit = <<>> THEN stack ELSE Append(stack, f)
       /\ nested' = IF stack = <<>> THEN nested ELSE nested + 1
       /\ ncalls' = IF stack = <<>> THEN ncalls + 1 ELSE ncalls
       /\ last' = IF stack = <<>> /\ r.emit = <<>> THEN Completed(f) ELSE last
       /\ issued' = Issue(Engine, c, "start", r)
       /\ UNCHANGED viewVars

\* the listeners of the innermost suspended call's event have all returned
ListenersReturn ==
    /\ stack # <<>>
    /\ LET top == stack[Len(stack)]
           rest == SubSeq(stack, 1, Len(stack) - 1)
       IN IF top.pc = "done"
          THEN /\ stack' = rest
               /\ last' = IF rest = <<>> THEN Completed(top) ELSE last
               /\ UNCHANGED <<engineVars, events, issued>>
          ELSE LET r == Segment(Engine, top.call, top.pc)
                   f == Frame(top.call, r, top.before)
               IN /\ Install(r.e)
                  /\ events' = events \o r.emit
                  /\ stack' = IF r.emit = <<>> THEN rest ELSE Append(rest, f)
                  /\ last' = IF r.emit = <<>> /\ rest = <<>> THEN Completed(f) ELSE last
                  /\ issued' = Issue(Engine, top.call, top.pc, r)
    /\ UNCHANGED <<ncalls, nested, viewVars>>

EnterAddWidget ==
    /\ MayEnter
    /\ \E id \in generateId :
          Enter([op |-> "addWidget", id |-> id, tag |-> DefaultAdd.tag,
                 position |-> DefaultAdd.position, size |-> DefaultAdd.size,
                 properties |-> DefaultAdd.properties])

EnterRemoveWidget ==
    /\ MayEnter
    /\ \E id \in IdPool : Enter([op |-> "removeWidget", id |-> id])

EnterSelectWidget ==
    /\ MayEnter
    /\ \E id \in IdPool \cup {Null} : Enter([op |-> "selectWidget", id |-> id])

EnterFromJSON ==
    /\ MayEnter
    /\ Enter([op |-> "fromJSON", id |-> Null, data |-> ImportDoc])

EnterUndo ==
    /\ MayEnter
    /\ Enter([op |-> "undo", id |-> Null])

NextReentrant ==
    \/ EnterAddWidget
    \/ EnterRemoveWidget
    \/ EnterSelectWidget
    \/ EnterFromJSON
    \/ EnterUndo
    \/ ListenersReturn

SpecReentrant == Init /\ [][NextReentrant]_vars


----------------------------------------------------------------------------
(* Grid snapping: engines constructed with snapping on or off and grid sizes
   0 (unset), 8 and 20, on which placements are added, moved and resized and
   the configuration changed. *)

GridConfigs == {[gridSize |-> g, snapToGrid |-> b] : g \in {0, 8, 20}, b \in BOOLEAN}

GridPositions == {[x |-> 105, y |-> 213], [x |-> 30, y |-> 50], [x |-> -30, y |-> 9]}

GridSizes == ResizeSizes \cup {[width |-> 400, height |-> 300], [width |-> -40, height |-> 50]}

GridMore == ncalls < GridCalls

GridAddWidget ==
    /\ GridMore
    /\ \E id \in generateId, p \in GridPositions :
          Do([op |-> "addWidget", id |-> id, tag |-> DefaultAdd.tag, position |-> <<p>>,
              size |-> DefaultAdd.size, properties |-> DefaultAdd.properties])

GridMoveWidget ==
    /\ GridMore
    /\ \E id \in IdPool, p \in GridPositions :
          Do([op |-> "moveWidget", id |-> id, position |-> p])

GridResizeWidget ==
    /\ GridMore
    /\ \E id \in IdPool, sz \in GridSizes :
          Do([op |-> "resizeWidget", id |-> id, size |-> sz])

GridSetConfig ==
    /\ GridMore
    /\ \E p \in GridConfigs : Do([op |-> "setConfig", id |-> Null, partial |-> p])

InitGrid ==
    \E p \in GridConfigs :
       /\ config = construct(p).config
       /\ widgets = construct(p).widgets
       /\ selectedId = construct(p).selectedId
       /\ nextZIndex = construct(p).nextZIndex
       /\ history = construct(p).history
       /\ historyIndex = construct(p).historyIndex
       /\ clock = construct(p).clock
       /\ events = <<>>
       /\ last = [op |-> "constructor", id |-> Null, ret |-> "void", before |-> 0,
                  prev |-> "none"]
       /\ ncalls = 0
       /\ stack = <<>>
       /\ nested = 0
       /\ issued = [returned |-> <<>>, z |-> 0, fresh |-> FALSE]
       /\ InitView

NextGrid ==
    \/ GridAddWidget
    \/ GridMoveWidget
    \/ GridResizeWidget
    \/ GridSetConfig

SpecGrid == InitGrid /\ [][NextGrid]_vars


----------------------------------------------------------------------------
(* The Canvas element (Canvas.ts) and its WidgetContainers (WidgetContainer.ts).
   The Canvas listens to the engine's notifications; its handlers run inside
   dispatchEvent and see the engine as it is at the emit.  A container keeps a
   reference to the live placement object, read here from the engine by id. *)

\* the tags registered in widgetRegistry
Registered == {"timer-widget"}

CanvasTags == Registered \cup {"unknown-widget"}

\* WidgetRegistry.create: <<element>>, or <<>> for null
create(tag) == IF tag \in Registered THEN <<tag>> ELSE <<>>

\* createContainer that registers a container only when the factory made a widget
createContainerIfWidget(cs, placement) ==
    IF create(placement.tag) = <<>>
    THEN cs
    ELSE MapSet(cs, [id |-> placement.id, tag |-> placement.tag,
                     left |-> placement.position.x, top |-> placement.position.y,
                     width |-> placement.size.width, height |-> placement.size.height,
                     zIndex |-> placement.zIndex, selected |-> FALSE,
                     content |-> create(placement.tag), isResizing |-> FALSE,
                     resizeStartPos |-> <<>>, resizeStartSize |-> <<>>])

\* Canvas.createContainer: new WidgetContainer (render, updatePosition), the
\* widget element appended when there is one, containers.set
createContainer(cs, placement) ==
    MapSet(cs, [id |-> placement.id, tag |-> placement.tag,
                left |-> placement.position.x, top |-> placement.position.y,
                width |-> placement.size.width, height |-> placement.size.height,
                zIndex |-> placement.zIndex, selected |-> FALSE,
                content |-> create(placement.tag), isResizing |-> FALSE,
                resizeStartPos |-> <<>>, resizeStartSize |-> <<>>])

\* Canvas.removeContainer
removeContainer(cs, id) == MapDelete(cs, id)

\* WidgetContainer.updatePlacement: updatePosition, then updateSelection(false)
updatePlacement(container, placement) ==
    [container EXCEPT !.left = placement.position.x, !.top = placement.position.y,
                      !.width = placement.size.width, !.height = placement.size.height,
                      !.zIndex = placement.zIndex, !.selected = FALSE]

\* Canvas.updateSelection
updateSelection(cs, id) ==
    [i \in 1 .. Len(cs) |-> [cs[i] EXCEPT !.selected = (cs[i].id = id)]]

RECURSIVE CreateAll(_, _)
CreateAll(cs, ws) ==
    IF ws = <<>> THEN cs ELSE CreateAll(createContainer(cs, Head(ws)), Tail(ws))

\* syncContainers that keeps the containers it has
syncContainersKeepsOld(cs, e) == CreateAll(cs, e.widgets)

\* Canvas.syncContainers
syncContainers(cs, e) == CreateAll(<<>>, e.widgets)

\* the listeners of Canvas.bindStateEvents, for the event ev emitted by engine e
Handle(cs, e, ev) ==
    CASE ev.type = "widget-add" ->
            createContainer(cs, MapGet(e.widgets, ev.widgetId))
      [] ev.type = "widget-remove" ->
            removeContainer(cs, ev.widgetId)
      [] ev.type \in {"widget-move", "widget-resize"} ->
            IF MapHas(e.widgets, ev.widgetId) /\ MapHas(cs, ev.widgetId)
            THEN MapSet(cs, updatePlacement(MapGet(cs, ev.widgetId),
                                            MapGet(e.widgets, ev.widgetId)))
            ELSE cs
      [] ev.type = "widget-select" ->
            updateSelection(cs, ev.widgetId)
      [] ev.type = "widget-deselect" ->
            IF MapHas(cs, ev.widgetId)
            THEN MapSet(cs, [MapGet(cs, ev.widgetId) EXCEPT !.selected = FALSE])
            ELSE cs
      [] ev.type = "canvas-change" ->
            syncContainers(cs, e)

\* the one member of a singleton set
The(S) == CHOOSE v \in S : TRUE

\* one segment of the engine call c, and the Canvas listener for what it emits
CanvasSegment(e, cs, c, pc) ==
    The({[e |-> r.e,
          cs |-> IF r.emit = <<>> THEN cs ELSE Handle(cs, r.e, r.emit[1]),
          emit |-> r.emit, pc |-> r.pc, ret |-> r.ret] : r \in {Segment(e, c, pc)}})

RECURSIVE CanvasFrom(_, _, _, _, _)
\* the engine call c with the Canvas listening
CanvasFrom(e, cs, c, pc, evs) ==
    The({IF r.pc = "done"
         THEN [e |-> r.e, cs |-> r.cs, events |-> evs \o r.emit, ret |-> r.ret]
         ELSE CanvasFrom(r.e, r.cs, c, r.pc, evs \o r.emit)
           : r \in {CanvasSegment(e, cs, c, pc)}})

CanvasRun(e, cs, c) == CanvasFrom(e, cs, c, "start", <<>>)

\* the user can make a gesture: no resize is in progress
CanvasIdle == ncalls < CanvasSteps /\ listeners = <<>>

\* a gesture that makes the one engine call c
Gesture(c) ==
    \E r \in {CanvasRun(Engine, containers, c)} :
       /\ Install(r.e)
       /\ containers' = r.cs
       /\ events' = r.events
       /\ last' = Logged(c, r.ret)
       /\ issued' = Issue(Engine, c, "start", r)
       /\ made' = <<c>>
       /\ ncalls' = ncalls + 1
       /\ UNCHANGED <<stack, nested, listeners, widgetVars, heap>>

\* where a palette item is dropped on the canvas
DropPoints == {[x |-> 40, y |-> 260]}

\* Canvas.addWidget, or the drop of a new widget (onDrop, type new-widget)
CanvasAddWidget ==
    /\ CanvasIdle
    /\ \E id \in generateId, tag \in CanvasTags, position \in {<<>>} \cup {<<p>> : p \in DropPoints} :
          Gesture([op |-> "addWidget", id |-> id, tag |-> tag, position |-> position,
                   size |-> <<>>, properties |-> <<>>])

\* the remove button of a container, or Canvas.removeWidget
CanvasRemoveWidget ==
    /\ CanvasIdle
    /\ \E id \in IdPool : Gesture([op |-> "removeWidget", id |-> id])

\* mousedown on a container outside its handles, a click on the background
\* (null), or Canvas.selectWidget
CanvasSelectWidget ==
    /\ CanvasIdle
    /\ \E id \in IdPool \cup {Null} : Gesture([op |-> "selectWidget", id |-> id])

CanvasClear ==
    /\ CanvasIdle
    /\ Gesture([op |-> "clear", id |-> Null])

CanvasUndo ==
    /\ CanvasIdle
    /\ Gesture([op |-> "undo", id |-> Null])

CanvasRedo ==
    /\ CanvasIdle
    /\ Gesture([op |-> "redo", id |-> Null])

\* getState().setConfig
CanvasSetConfig ==
    /\ CanvasIdle
    /\ \E p \in ConfigUpdates : Gesture([op |-> "setConfig", id |-> Null, partial |-> p])

\* getState().updateWidgetProperties
CanvasUpdateProperties ==
    /\ CanvasIdle
    /\ \E id \in IdPool, p \in PropertyUpdates :
          Gesture([op |-> "updateWidgetProperties", id |-> id, properties |-> p])

\* Canvas.importState: JSON.parse, fromJSON, then syncContainers.  The documents
\* hold integers and strings only, which JSON.stringify and JSON.parse give back
\* as they were.
CanvasImportState ==
    /\ CanvasIdle
    /\ \E d \in Documents :
          \E c \in {[op |-> "fromJSON", id |-> Null, data |-> d]} :
          \E r \in {CanvasRun(Engine, containers, c)} :
             /\ Install(r.e)
             /\ containers' = syncContainers(r.cs, r.e)
             /\ events' = r.events
             /\ last' = Logged(c, r.ret)
             /\ issued' = Issue(Engine, c, "start", r)
             /\ made' = <<c>>
             /\ ncalls' = ncalls + 1
             /\ UNCHANGED <<stack, nested, listeners, widgetVars, heap>>

\* where the pointer takes the drag handle, relative to the middle of the
\* wrapper's top edge (.drag-handle: top -24px, left 50%, centred)
GrabOffsets == {[x |-> 0, y |-> -12], [x |-> -10, y |-> -20]}

\* how far the pointer travels from drag start to drop
PointerDeltas == {[x |-> 40, y |-> 0], [x |-> -60, y |-> 80]}

\* a wrapper is taken by its drag handle and dropped on the canvas: the
\* mousedown reaches the container (onSelect), getInitialData reads the
\* placement's position, and Canvas.setupDropTarget onDrop moves the widget.
\* from and to are the pointer at drag start and at the drop, canvas-relative.
CanvasDragWrapper ==
    /\ CanvasIdle
    /\ \E i \in 1 .. Len(containers), grab \in GrabOffsets, delta \in PointerDeltas :
          /\ MapHas(widgets, containers[i].id)
          /\ \E sel \in {[op |-> "selectWidget", id |-> containers[i].id]} :
             \E s \in {CanvasRun(Engine, containers, sel)} :
             \E widget \in {MapGet(s.e.widgets, sel.id)} :
             \E from \in {[x |-> widget.position.x + (widget.size.width \div 2) + grab.x,
                           y |-> widget.position.y + grab.y]} :
             \E to \in {[x |-> from.x + delta.x, y |-> from.y + delta.y]} :
             \E c \in {[op |-> "moveWidget", id |-> sel.id,
                        position |-> [x |-> widget.position.x + (to.x - widget.position.x),
                                      y |-> widget.position.y + (to.y - widget.position.y)],
                        from |-> from, to |-> to]} :
             \E r \in {CanvasRun(s.e, s.cs, c)} :
             /\ Install(r.e)
             /\ containers' = r.cs
             /\ events' = s.events \o r.events
             /\ last' = Logged(c, r.ret)
             /\ issued' = Issue(s.e, c, "start", r)
             /\ made' = <<sel, c>>
             /\ ncalls' = ncalls + 1
             /\ UNCHANGED <<stack, nested, listeners, widgetVars, heap>>

Corners == {"se", "sw", "ne", "nw"}

\* where the pointer is at mousedown on a handle, and where it may move to
PointerStart == [x |-> 300, y |-> 250]

PointerMoves == {[x |-> 330, y |-> 270], [x |-> 150, y |-> 150]}

\* WidgetContainer.startResize: mousedown on a resize handle (the event does not
\* reach the container's own mousedown listener)
MouseDownOnHandle ==
    /\ CanvasIdle
    /\ \E i \in 1 .. Len(containers), corner \in Corners :
          /\ MapHas(widgets, containers[i].id)
          /\ containers' = [containers EXCEPT
                               ![i].isResizing = TRUE,
                               ![i].resizeStartPos = <<PointerStart>>,
                               ![i].resizeStartSize =
                                    <<MapGet(widgets, containers[i].id).size>>]
          /\ listeners' = Append(listeners, [id |-> containers[i].id, corner |-> corner])
    /\ made' = <<>>
    /\ events' = <<>>
    /\ ncalls' = ncalls + 1
    /\ UNCHANGED <<engineVars, last, issued, stack, nested, widgetVars, heap>>

\* the letters of a corner name
Includes(corner, letter) ==
    CASE letter = "e" -> corner \in {"se", "ne"}
      [] letter = "w" -> corner \in {"sw", "nw"}
      [] letter = "s" -> corner \in {"se", "sw"}
      [] letter = "n" -> corner \in {"ne", "nw"}

\* onMouseMove of startResize for one container
onMouseMove(container, corner, pointer) ==
    IF ~container.isResizing \/ container.resizeStartPos = <<>>
          \/ container.resizeStartSize = <<>>
    THEN container
    ELSE LET dx == pointer.x - container.resizeStartPos[1].x
             dy == pointer.y - container.resizeStartPos[1].y
             w0 == container.resizeStartSize[1].width
             h0 == container.resizeStartSize[1].height
             w1 == IF Includes(corner, "e") THEN w0 + dx ELSE w0
             w2 == IF Includes(corner, "w") THEN w1 - dx ELSE w1
             h1 == IF Includes(corner, "s") THEN h0 + dy ELSE h0
             h2 == IF Includes(corner, "n") THEN h1 - dy ELSE h1
         IN [container EXCEPT !.width = Max(80, w2), !.height = Max(60, h2)]

\* a mousemove that commits the running size to the engine on every frame
MouseMoveCommits ==
    /\ ncalls < CanvasSteps
    /\ listeners # <<>>
    /\ \E pointer \in PointerMoves :
       \E moved \in {onMouseMove(MapGet(containers, listeners[1].id),
                                 listeners[1].corner, pointer)} :
          Gesture([op |-> "resizeWidget", id |-> moved.id,
                   size |-> [width |-> moved.width, height |-> moved.height]])

\* a mousemove on the document while a handle is held
MouseMove ==
    /\ ncalls < CanvasSteps
    /\ listeners # <<>>
    /\ \E pointer \in PointerMoves :
          containers' = [i \in 1 .. Len(containers) |->
                           IF containers[i].id = listeners[1].id
                           THEN onMouseMove(containers[i], listeners[1].corner, pointer)
                           ELSE containers[i]]
    /\ made' = <<>>
    /\ events' = <<>>
    /\ ncalls' = ncalls + 1
    /\ UNCHANGED <<engineVars, last, issued, stack, nested, listeners, widgetVars, heap>>

\* onMouseUp of startResize: onResize with the size read from the inline style
\* (parseInt of the integer pixel count written by onMouseMove or
\* updatePosition), the resize fields cleared, the document listeners removed.
\* A handle that is held can always be released.
MouseUp ==
    /\ listeners # <<>>
    /\ \E id \in {listeners[1].id} :
       \E container \in {MapGet(containers, id)} :
       \E c \in {[op |-> "resizeWidget", id |-> id,
                  size |-> [width |-> container.width, height |-> container.height]]} :
       \E r \in {CanvasRun(Engine, containers, c)} :
       \E after \in {IF container.isResizing THEN r.cs ELSE containers} :
          /\ IF container.isResizing
             THEN /\ Install(r.e)
                  /\ events' = r.events
                  /\ last' = Logged(c, r.ret)
                  /\ issued' = Issue(Engine, c, "start", r)
                  /\ made' = <<c>>
             ELSE /\ events' = <<>>
                  /\ made' = <<>>
                  /\ UNCHANGED <<engineVars, last, issued>>
          /\ containers' = [i \in 1 .. Len(after) |->
                               IF after[i].id = id
                               THEN [after[i] EXCEPT !.isResizing = FALSE,
                                                     !.resizeStartPos = <<>>,
                                                     !.resizeStartSize = <<>>]
                               ELSE after[i]]
    /\ listeners' = <<>>
    /\ ncalls' = ncalls + 1
    /\ UNCHANGED <<stack, nested, widgetVars, heap>>

NextCanvas ==
    \/ CanvasAddWidget
    \/ CanvasRemoveWidget
    \/ CanvasSelectWidget
    \/ CanvasClear
    \/ CanvasUndo
    \/ CanvasRedo
    \/ CanvasSetConfig
    \/ CanvasUpdateProperties
    \/ CanvasImportState
    \/ CanvasDragWrapper
    \/ MouseDownOnHandle
    \/ MouseMove
    \/ MouseUp

\* new Canvas(): a new engine with the Canvas listening, no container yet
SpecCanvas == Init /\ [][NextCanvas]_vars


----------------------------------------------------------------------------
(* One widget element on its own: calls, attribute changes and frames *)

\* a step on the element: what it did is recorded, and nothing else changes
ElementStep(el, op, props) ==
    /\ element' = [el EXCEPT !.op = op, !.props = props]
    /\ ncalls' = ncalls + 1
    /\ UNCHANGED <<engineVars, events, last, stack, nested, issued, canvasVars, timer, heap>>

WidgetSetProperties ==
    /\ ncalls < WidgetSteps
    /\ \E props \in PropertyLists :
          ElementStep(setProperties(element, props), "setProperties", props)

WidgetSetAttribute ==
    /\ ncalls < WidgetSteps
    /\ \E name \in PropNames, value \in AttributeValues :
          ElementStep(setAttribute(element, name, value), "setAttribute",
                      <<<<name, Undefined>>>>)

\* the element is put into the document for the first time
WidgetConnect ==
    /\ ncalls < WidgetSteps
    /\ ~element.initialized
    /\ ElementStep(connectedCallback(element), "connect", <<>>)

\* an animation frame
AnimationFrame ==
    /\ element.frames > 0
    /\ ElementStep([runFrames(element, element.frames) EXCEPT !.frames = 0,
                                                             !.requests = 0],
                   "frame", <<>>)

NextWidget ==
    \/ WidgetSetProperties
    \/ WidgetSetAttribute
    \/ WidgetConnect
    \/ AnimationFrame

\* document.createElement('counter-widget')
SpecWidget == Init /\ [][NextWidget]_vars

\* an animation frame of a widget whose render() sets properties
RenderingFrame ==
    /\ ncalls < WidgetSteps
    /\ element.frames > 0
    /\ \E props \in PropertyLists, early \in BOOLEAN :
          ElementStep(frameCallbackRendering([element EXCEPT !.frames = @ - 1,
                                                             !.requests = 0],
                                             props, early),
                      "render", props)

NextWidgetLive ==
    \/ NextWidget
    \/ RenderingFrame

\* the browser runs every animation frame callback that was requested
SpecWidgetLive == Init /\ [][NextWidgetLive]_vars /\ WF_vars(AnimationFrame)

----------------------------------------------------------------------------
(* One TimerWidget on its own: connections, clicks, the wall clock, the interval *)

TimerActions == {"start", "pause", "reset", "toggle-mode"}

\* how far the wall clock moves at a time, in ms
TimeSteps == {100, 30000}

\* a step on the timer: what it did is recorded, and nothing else changes
TimerStep(t, op) ==
    /\ timer' = [t EXCEPT !.op = op]
    /\ ncalls' = ncalls + 1
    /\ UNCHANGED <<engineVars, events, last, stack, nested, issued, canvasVars, element, heap>>

\* connectedCallback: _initialize and onInit the first time (autoStart set by
\* attribute or left false), and one more click listener every time
TimerConnect ==
    /\ ncalls < TimerSteps
    /\ ~timer.connected
    /\ timer.clicks < MaxConnects
    /\ \E autoStart \in BOOLEAN :
          TimerStep([(IF ~timer.initialized /\ autoStart THEN start(timer) ELSE timer)
                        EXCEPT !.initialized = TRUE, !.connected = TRUE,
                               !.clicks = @ + 1],
                    "connect")

\* disconnectedCallback: onDisconnect
TimerDisconnect ==
    /\ ncalls < TimerSteps
    /\ timer.connected
    /\ TimerStep([stop(timer) EXCEPT !.connected = FALSE], "disconnect")

\* a click on one of the controls (of the current or of a stale render)
TimerClick ==
    /\ ncalls < TimerSteps
    /\ timer.clicks > 0
    /\ \E action \in TimerActions :
          TimerStep(click(timer, action, timer.clicks), action)

\* wall-clock time passes
TimePasses ==
    /\ ncalls < TimerSteps
    /\ \E d \in TimeSteps :
          TimerStep([timer EXCEPT !.now = @ + d,
                                  !.ran = IF timer.timerState = "running"
                                          THEN @ + d ELSE @,
                                  !.pausedFor = IF timer.timerState = "paused"
                                                THEN @ + d ELSE @],
                    "wait")

\* the interval's callback runs, at or after the time it is due
IntervalTick ==
    /\ ncalls < TimerSteps
    /\ timer.intervalId
    /\ timer.now >= timer.due
    /\ TimerStep(intervalCallback(timer), "tick")

NextTimer ==
    \/ TimerConnect
    \/ TimerDisconnect
    \/ TimerClick
    \/ TimePasses
    \/ IntervalTick

\* document.createElement('timer-widget')
SpecTimer == Init /\ [][NextTimer]_vars

----------------------------------------------------------------------------
(* The engine with its objects told apart: one complete call per step *)

\* a call on the engine: what it was is recorded, and nothing else changes
ObjectStep(h, op) ==
    /\ heap' = [h EXCEPT !.op = op]
    /\ ncalls' = ncalls + 1
    /\ UNCHANGED <<engineVars, events, last, stack, nested, issued, canvasVars, widgetVars>>

ObjectsAddWidget ==
    /\ ncalls < ObjectCalls
    /\ heap.ids < MaxIds
    /\ \E c \in {DefaultAdd} \cup AddArgs : ObjectStep(addWidgetObjects(heap, c), "addWidget")

ObjectsRemoveWidget ==
    /\ ncalls < ObjectCalls
    /\ \E id \in IdPool : ObjectStep(removeWidgetObjects(heap, id), "removeWidget")

ObjectsMoveWidget ==
    /\ ncalls < ObjectCalls
    /\ \E id \in IdPool, position \in MovePositions :
          ObjectStep(moveWidgetObjects(heap, id, position), "moveWidget")

ObjectsResizeWidget ==
    /\ ncalls < ObjectCalls
    /\ \E id \in IdPool, size \in ResizeSizes :
          ObjectStep(resizeWidgetObjects(heap, id, size), "resizeWidget")

ObjectsUpdateWidgetProperties ==
    /\ ncalls < ObjectCalls
    /\ \E id \in IdPool, update \in PropertyUpdates :
          ObjectStep(updateWidgetPropertiesObjects(heap, id, update), "updateWidgetProperties")

ObjectsSelectWidget ==
    /\ ncalls < ObjectCalls
    /\ \E id \in IdPool \cup {Null} : ObjectStep(selectWidgetObjects(heap, id), "selectWidget")

ObjectsSetConfig ==
    /\ ncalls < ObjectCalls
    /\ \E partial \in ConfigUpdates : ObjectStep(setConfigObjects(heap, partial), "setConfig")

ObjectsUndo ==
    /\ ncalls < ObjectCalls
    /\ ObjectStep(undoObjects(heap), "undo")

ObjectsRedo ==
    /\ ncalls < ObjectCalls
    /\ ObjectStep(redoObjects(heap), "redo")

ObjectsToJSON ==
    /\ ncalls < ObjectCalls
    /\ ObjectStep(toJSONObjects(heap), "toJSON")

NextObjects ==
    \/ ObjectsAddWidget
    \/ ObjectsRemoveWidget
    \/ ObjectsMoveWidget
    \/ ObjectsResizeWidget
    \/ ObjectsUpdateWidgetProperties
    \/ ObjectsSelectWidget
    \/ ObjectsSetConfig
    \/ ObjectsUndo
    \/ ObjectsRedo
    \/ ObjectsToJSON

SpecObjects == Init /\ [][NextObjects]_vars

----------------------------------------------------------------------------
(* The claims.  In Spec and SpecCap every step is one complete call, and
   last' is the record of that call. *)

PushOps == {"addWidget", "removeWidget", "moveWidget", "resizeWidget", "clear", "fromJSON"}

NotFoundOps == {"removeWidget", "moveWidget", "resizeWidget", "updateWidgetProperties"}

\* C1: after addWidget the next undo() returns true and leaves as many
\* placements as there were just before the add; a redo() right after that
\* returns true and leaves as many as there were just after the add.
C1_UndoRedoAfterAdd ==
    [][/\ (last.op = "addWidget" /\ last'.op = "undo")
            => (last'.ret = "true" /\ Len(widgets') = last.before)
       /\ (last.op = "undo" /\ last.prev = "addWidget" /\ last'.op = "redo")
            => (last'.ret = "true" /\ Len(widgets') = last.before)]_vars

\* C2: after every successful history-appending operation the cursor is the
\* last index of the history (canRedo is false), and the history is the part
\* up to the cursor the operation found, followed by the one new snapshot.
C2_PushDiscardsRedo ==
    [][(last'.op \in PushOps /\ last'.ret # "false")
          => LET kept == SubSeq(history, 1, historyIndex + 1)
                 full == Append(kept, history'[Len(history')])
             IN /\ historyIndex' = Len(history') - 1
                /\ ~(historyIndex' < Len(history') - 1)
                /\ history' = IF Len(full) > maxHistory THEN Tail(full) ELSE full]_vars

\* a push has just discarded a redo branch: two pushes were made, the second
\* after an undo, so the history holds the initial snapshot and the new one
C2_Witness ==
    /\ last.op \in PushOps
    /\ last.ret # "false"
    /\ last.prev = "undo"
    /\ clock = 2
    /\ Len(history) = 2
    /\ historyIndex = 1

\* C3: the history holds between 1 and 50 snapshots and the cursor is one of
\* its indices.
C3_HistoryBounds ==
    /\ 1 <= Len(history)
    /\ Len(history) <= maxHistory
    /\ 0 <= historyIndex
    /\ historyIndex <= Len(history) - 1

\* the history is full and its oldest snapshot has been evicted
C3_Witness ==
    /\ Len(history) = maxHistory
    /\ clock >= maxHistory
    /\ history[1].timestamp > 0

\* C4: a push onto a full history evicts exactly the oldest snapshot and
\* leaves the cursor on the snapshot just pushed (index 49); from there each
\* undo() with the cursor above 0 succeeds, moves the cursor down by one onto
\* the snapshot pushed just before the one it leaves and restores it, and
\* undo() with the cursor at 0 (after 49 successes) returns false.
C4_EvictionKeepsUndo ==
    [][/\ (last'.op \in PushOps /\ last'.ret # "false"
             /\ Len(history) = maxHistory /\ historyIndex = maxHistory - 1)
          => /\ Len(history') = maxHistory
             /\ SubSeq(history', 1, maxHistory - 1) = Tail(history)
             /\ history'[maxHistory].timestamp = clock'
             /\ history'[maxHistory].widgets = widgets'
             /\ historyIndex' = maxHistory - 1
       /\ (last'.op = "undo" /\ Len(history) = maxHistory)
          => IF historyIndex > 0
             THEN /\ last'.ret = "true"
                  /\ historyIndex' = historyIndex - 1
                  /\ history' = history
                  /\ widgets' = history[historyIndex].widgets
                  /\ config' = history[historyIndex].config
                  /\ history[historyIndex].timestamp < history[historyIndex + 1].timestamp
             ELSE /\ last'.ret = "false"
                  /\ UNCHANGED engineVars]_vars

\* after an eviction, undo has walked the 49 steps down from the snapshot just
\* pushed to the oldest remaining one, and the next undo has returned false
C4_Witness ==
    /\ Len(history) = maxHistory
    /\ history[1].timestamp = clock - (maxHistory - 1)
    /\ history[1].timestamp > 0
    /\ history[maxHistory].timestamp = clock
    /\ historyIndex = 0
    /\ last.op = "undo"
    /\ last.prev = "undo"
    /\ last.ret = "false"

\* C5: selectedId is null or the id of a live placement.
C5_SelectionIsLive == selectedId = Null \/ MapHas(widgets, selectedId)

\* C6: removeWidget, moveWidget, resizeWidget and updateWidgetProperties with
\* an id that is not live return false, emit nothing and change nothing.
C6_NotFoundIsNoOp ==
    [][(last'.op \in NotFoundOps /\ ~MapHas(widgets, last'.id))
          => /\ last'.ret = "false"
             /\ events' = <<>>
             /\ UNCHANGED engineVars]_vars

\* a call with an unknown id has returned on a canvas that holds a placement
C6_Witness ==
    /\ last.op \in NotFoundOps
    /\ last.ret = "false"
    /\ Len(widgets) = 1
    /\ ~MapHas(widgets, last.id)
    /\ Len(history) > 1

\* C7: undo() with the cursor at 0 and redo() with the cursor at the last index
\* return false, emit nothing and change nothing.
C7_BoundaryIsNoOp ==
    [][(\/ last'.op = "undo" /\ historyIndex = 0
        \/ last'.op = "redo" /\ historyIndex = Len(history) - 1)
          => /\ last'.ret = "false"
             /\ events' = <<>>
             /\ UNCHANGED engineVars]_vars

\* an undo has been refused at the start of a history that has more entries,
\* with a placement selected
C7_Witness ==
    /\ last.op = "undo"
    /\ last.ret = "false"
    /\ historyIndex = 0
    /\ Len(history) > 1
    /\ selectedId # Null

\* C8: when the listeners of a notification run, the call that emitted it has
\* finished changing the engine: resuming the call after the listeners have
\* returned changes nothing of the engine.
C8_EmitsAfterCompletion == [][ListenersReturn => UNCHANGED engineVars]_vars

\* C9: removeWidget of the selected live placement leaves selectedId null and
\* emits widget-deselect, then widget-remove, for it; removeWidget of any other
\* live placement leaves selectedId as it was and emits widget-remove only.
C9_RemoveClearsSelection ==
    [][(last'.op = "removeWidget" /\ MapHas(widgets, last'.id))
          => IF selectedId = last'.id
             THEN /\ selectedId' = Null
                  /\ events' = emit("widget-deselect", last'.id)
                                  \o emit("widget-remove", last'.id)
             ELSE /\ selectedId' = selectedId
                  /\ events' = emit("widget-remove", last'.id)]_vars

\* the selected placement has been removed while another stays
C9_Witness ==
    /\ last.op = "removeWidget"
    /\ last.ret = "true"
    /\ last.prev = "selectWidget"
    /\ Len(events) = 2
    /\ selectedId = Null
    /\ Len(widgets) = 1

\* C10: right after selectWidget(id) of a live placement, its zIndex is
\* greater than that of every other live placement.
C10_SelectedIsFront ==
    [][(last'.op = "selectWidget" /\ MapHas(widgets, last'.id))
          => \A i \in 1 .. Len(widgets') :
                widgets'[i].id # last'.id
                   => MapGet(widgets', last'.id).zIndex > widgets'[i].zIndex]_vars

\* the placement added first has been selected after a later one was added
C10_Witness ==
    /\ last.op = "selectWidget"
    /\ Len(widgets) = 2
    /\ last.id = widgets[1].id
    /\ selectedId = last.id
    /\ widgets[1].zIndex > widgets[2].zIndex

\* C11: as long as only addWidget has been called, the placements it returned
\* have pairwise different ids, and each returned zIndex is greater than the
\* one returned by the addWidget call before it.
C11_AddsAreDistinct ==
    Len(issued.returned) = ncalls
       => /\ \A i, j \in 1 .. Len(issued.returned) :
                i # j => issued.returned[i].id # issued.returned[j].id
          /\ \A i \in 2 .. Len(issued.returned) :
                issued.returned[i].zIndex > issued.returned[i - 1].zIndex

\* the step is a call that takes a zIndex from the counter: addWidget, or
\* selectWidget of a live placement
TakesZIndex ==
    /\ last'.op \in CounterOps
    /\ MapHas(widgets', last'.id)
    /\ last'.op = "selectWidget" => MapHas(widgets, last'.id)

\* C12 as stated: every zIndex handed out is greater than the one handed out
\* before it, whatever was called in between.
C12_AlwaysIncreasing ==
    [][TakesZIndex => MapGet(widgets', last'.id).zIndex > issued.z]_vars

\* C12: a zIndex handed out is greater than the one handed out before it
\* unless clear, undo, redo, restoreSnapshot or fromJSON reassigned the counter
\* in between, and it is always greater than the zIndex of every placement
\* that is live when it is handed out.
C12_IncreasingBetweenResets ==
    [][TakesZIndex
          => LET z == MapGet(widgets', last'.id).zIndex
             IN /\ ~issued.fresh => z > issued.z
                /\ \A i \in 1 .. Len(widgets) : z > widgets[i].zIndex]_vars

\* two placements were added and the first one selected: three values were
\* handed out in a row
C12_Witness ==
    /\ Len(issued.returned) = 2
    /\ issued.returned[1].id # issued.returned[2].id
    /\ last.op = "selectWidget"
    /\ last.prev = "addWidget"
    /\ issued.z = 3
    /\ ~issued.fresh
    /\ Len(widgets) = 2

\* one more than the greatest zIndex of ws, 1 when ws is empty
AboveAll(ws) ==
    IF ws = <<>>
    THEN 1
    ELSE 1 + (CHOOSE m \in {ws[i].zIndex : i \in 1 .. Len(ws)} :
                 \A i \in 1 .. Len(ws) : m >= ws[i].zIndex)

\* C13: in every reachable state, fromJSON(toJSON()) on the engine itself, and
\* on a newly constructed engine, leaves exactly the placements of the exporting
\* engine (id, tag, position, size, properties, zIndex) in the same order and
\* its configuration, and sets the counter to one more than the greatest
\* restored zIndex, or 1 without placements.
C13_ExportImportRoundTrip ==
    \A target \in {Engine, constructor} :
       LET r == Run(target, [op |-> "fromJSON", id |-> Null, data |-> toJSON(Engine)])
       IN /\ r.e.widgets = widgets
          /\ r.e.config = config
          /\ r.e.nextZIndex = AboveAll(widgets)
          /\ r.ret = "void"

\* an export has been imported into an engine whose live state had moved away
\* from its last history entry: two placements, the first brought to the
\* front by a selection
C13_Witness ==
    /\ last.op = "fromJSON"
    /\ last.prev = "selectWidget"
    /\ Len(widgets) = 2
    /\ widgets[1].zIndex > widgets[2].zIndex
    /\ nextZIndex = widgets[1].zIndex + 1
    /\ history[historyIndex + 1].widgets = widgets
    /\ history[historyIndex].widgets # widgets

\* the history after a push made with the cursor on its (0-based) index:
\* the entries up to the cursor, then the new one, less the oldest over the cap
Pushed(old, index, entry) ==
    LET full == Append(SubSeq(old, 1, index + 1), entry)
    IN IF Len(full) > maxHistory THEN Tail(full) ELSE full

UndoCall == [op |-> "undo", id |-> Null]

C15_UndoRedoRestore ==
    [][(last'.op \in {"undo", "redo"} /\ last'.ret = "true")
          => /\ historyIndex' = IF last'.op = "undo"
                                THEN historyIndex - 1 ELSE historyIndex + 1
             /\ widgets' = history[historyIndex' + 1].widgets
             /\ config' = history[historyIndex' + 1].config
             /\ nextZIndex' = AboveAll(widgets')
             /\ history' = history
             /\ events' = emit("canvas-change", Null)]_vars

\* redo has restored, after an undo, the snapshot with two placements at the
\* end of the history
C15_Witness ==
    /\ last.op = "redo"
    /\ last.ret = "true"
    /\ last.prev = "undo"
    /\ Len(widgets) = 2
    /\ nextZIndex = widgets[2].zIndex + 1
    /\ historyIndex = Len(history) - 1
    /\ events = emit("canvas-change", Null)

Overlaid(old, p, q) ==
    /\ DOMAIN q = (DOMAIN old) \cup (DOMAIN p)
    /\ \A k \in DOMAIN p : q[k] = p[k]
    /\ \A k \in (DOMAIN old) \ (DOMAIN p) : q[k] = old[k]

\* C17: updateWidgetProperties(id, partial) on a live placement overlays
\* partial on its properties (keys absent from partial keep their values),
\* leaves its id, tag, position, size and zIndex and every other placement as
\* they were, returns true and emits one canvas-change and nothing else.
C17_PropertiesOverlay ==
    [][(last'.op = "updateWidgetProperties" /\ MapHas(widgets, last'.id))
          => /\ last'.ret = "true"
             /\ events' = emit("canvas-change", last'.id)
             /\ Len(widgets') = Len(widgets)
             /\ \A i \in 1 .. Len(widgets) :
                   IF widgets[i].id = last'.id
                   THEN /\ \E p \in PropertyUpdates :
                              Overlaid(widgets[i].properties, p, widgets'[i].properties)
                        /\ widgets'[i].id = widgets[i].id
                        /\ widgets'[i].tag = widgets[i].tag
                        /\ widgets'[i].position = widgets[i].position
                        /\ widgets'[i].size = widgets[i].size
                        /\ widgets'[i].zIndex = widgets[i].zIndex
                   ELSE widgets'[i] = widgets[i]]_vars

\* the second of two placements has been updated: its count is overwritten,
\* its unit kept and a label added, and the first placement is as it was added
C17_Witness ==
    /\ last.op = "updateWidgetProperties"
    /\ last.ret = "true"
    /\ Len(widgets) = 2
    /\ widgets[2].id = last.id
    /\ widgets[2].properties = [count |-> 5, unit |-> "s", label |-> "test"]
    /\ widgets[1].properties = [count |-> 0, unit |-> "s"]

NoHistoryOps == {"selectWidget", "setConfig", "updateWidgetProperties"}

\* C18: selectWidget, setConfig and updateWidgetProperties leave the history
\* and the cursor, and with them canUndo and canRedo, as they were.
C18_NoHistoryEntry ==
    [][last'.op \in NoHistoryOps
          => /\ history' = history
             /\ historyIndex' = historyIndex
             /\ canUndo(Engine') = canUndo(Engine)
             /\ canRedo(Engine') = canRedo(Engine)]_vars

\* a placement was brought to the front by a selection made in the middle of
\* the history: both undo and redo are still possible, and the live state is
\* no longer the snapshot at the cursor
C18_Witness ==
    /\ last.op = "selectWidget"
    /\ last.prev = "undo"
    /\ MapHas(widgets, last.id)
    /\ selectedId = last.id
    /\ canUndo(Engine)
    /\ canRedo(Engine)
    /\ history[historyIndex + 1].widgets # widgets

\* the coordinates and dimensions the snapping claims are checked for
Coordinates == {-30, -10, 0, 9, 10, 30, 50, 105, 213}

Dimensions == {-40, 0, 5, 30, 50, 130, 400}

\* s is the multiple of g nearest to v, the upper one when v is half way
Nearest(v, g, s) ==
    /\ s % g = 0
    /\ 2 * (s - v) <= g
    /\ 2 * (v - s) < g

Snapping == config.snapToGrid /\ config.gridSize > 0

\* the position stored for the requested one
StoredAs(requested, stored) ==
    IF Snapping
    THEN /\ Nearest(requested.x, config.gridSize, stored.x)
         /\ Nearest(requested.y, config.gridSize, stored.y)
         /\ (config.gridSize = 20 /\ requested = [x |-> 105, y |-> 213])
               => stored = [x |-> 100, y |-> 220]
    ELSE stored = requested

\* C19: with snapping on and grid size g > 0, addWidget and moveWidget store
\* for each axis the multiple of g nearest to the requested value, halves
\* rounded up ((105, 213) becomes (100, 220) for g = 20); with snapping off or
\* the grid size 0 they store the requested position.
C19_PositionSnapped ==
    \A x \in Coordinates, y \in Coordinates :
       LET p == [x |-> x, y |-> y]
       IN /\ \A id \in generateId :
                LET r == Run(Engine, [op |-> "addWidget", id |-> id, tag |-> DefaultAdd.tag,
                                      position |-> <<p>>, size |-> DefaultAdd.size,
                                      properties |-> DefaultAdd.properties])
                IN StoredAs(p, MapGet(r.e.widgets, id).position)
          /\ \A i \in 1 .. Len(widgets) :
                LET r == Run(Engine, [op |-> "moveWidget", id |-> widgets[i].id,
                                      position |-> p])
                IN /\ r.ret = "true"
                   /\ StoredAs(p, MapGet(r.e.widgets, widgets[i].id).position)

\* a placement has been moved to (-30, 9) on a grid of 20: it is stored at
\* (-20, 0)
C19_Witness ==
    /\ last.op = "moveWidget"
    /\ last.ret = "true"
    /\ Snapping
    /\ config.gridSize = 20
    /\ MapGet(widgets, last.id).position = [x |-> -20, y |-> 0]

\* the dimension stored for the requested one
DimensionAs(d, stored) ==
    IF Snapping
    THEN LET g == config.gridSize
         IN /\ stored % g = 0
            /\ stored >= g
            /\ stored > g => Nearest(d, g, stored)
            /\ stored = g => 2 * (d - g) < g
    ELSE stored = d

\* C20: with snapping on and grid size g > 0, resizeWidget stores for each
\* dimension the greater of g and the multiple of g nearest to the requested
\* value, so a multiple of g that is at least g; with snapping off it stores
\* the requested size.
C20_SizeSnapped ==
    \A w \in Dimensions, h \in Dimensions :
       \A i \in 1 .. Len(widgets) :
          LET r == Run(Engine, [op |-> "resizeWidget", id |-> widgets[i].id,
                                size |-> [width |-> w, height |-> h]])
              stored == MapGet(r.e.widgets, widgets[i].id).size
          IN /\ r.ret = "true"
             /\ DimensionAs(w, stored.width)
             /\ DimensionAs(h, stored.height)

\* a placement has been resized to 5 x 130 on a grid of 20: it is stored as
\* 20 x 140
C20_Witness ==
    /\ last.op = "resizeWidget"
    /\ last.ret = "true"
    /\ Snapping
    /\ config.gridSize = 20
    /\ MapGet(widgets, last.id).size = [width |-> 20, height |-> 140]

\* C21: every live placement is at least 80 wide and 60 high.
C21_MinimumSize ==
    \A i \in 1 .. Len(widgets) :
       widgets[i].size.width >= 80 /\ widgets[i].size.height >= 60

\* every push made so far is still in the history and the cursor is on the
\* last one: the state after clock history-appending calls without an undo
Unbroken == Len(history) = clock + 1 /\ historyIndex = clock

RECURSIVE UndoAll(_, _)
\* undo() called on e until it returns false: the engine it leaves and the
\* number of calls that returned true (k counts them)
UndoAll(e, k) ==
    LET r == Run(e, UndoCall)
    IN IF r.ret = "true" THEN UndoAll(r.e, k + 1) ELSE [e |-> r.e, count |-> k]

\* C22: right after construction the history holds one snapshot, of the empty
\* canvas, and canUndo and canRedo are false; a history-appending call made
\* when no undo has been made adds one entry and moves the cursor onto it, and
\* the other calls leave both; after n such calls (1 <= n < 50) exactly n
\* successive undo() calls return true, the next returns false, and canRedo is
\* then true.
C22_UndoDepth ==
    /\ [](last.op = "constructor"
            => /\ Len(history) = 1
               /\ history[1].widgets = <<>>
               /\ history[1].config = config
               /\ ~canUndo(Engine)
               /\ ~canRedo(Engine))
    /\ [][(Unbroken /\ last'.op \notin {"undo", "redo"} /\ clock' < maxHistory)
             => /\ Unbroken'
                /\ clock' = IF last'.op \in PushOps /\ last'.ret # "false"
                             THEN clock + 1 ELSE clock]_vars
    /\ []((Unbroken /\ clock < maxHistory)
            => LET u == UndoAll(Engine, 0)
               IN /\ u.count = clock
                  /\ u.e.historyIndex = 0
                  /\ clock >= 1 => canRedo(u.e))

\* 49 history-appending calls were made on a new engine, undo has returned
\* true 49 times and false the 50th time, and redo is possible
C22_Witness ==
    /\ clock = maxHistory - 1
    /\ Len(history) = maxHistory
    /\ history[1].timestamp = 0
    /\ historyIndex = 0
    /\ last.op = "undo"
    /\ last.prev = "undo"
    /\ last.ret = "false"
    /\ canRedo(Engine)

\* the ids the Canvas holds a container for, and the ids of the live placements
ContainerIds == {containers[i].id : i \in 1 .. Len(containers)}

LiveIds == {widgets[i].id : i \in 1 .. Len(widgets)}

\* C23: after every engine operation the containers map holds exactly one
\* container per live placement (its key set is the set of live placement ids),
\* and after an operation that emitted canvas-change the containers are in the
\* engine's placement order.
C23_OneContainerPerPlacement ==
    /\ ContainerIds = LiveIds
    /\ Len(containers) = Len(widgets)
    /\ (\E k \in 1 .. Len(events) : events[k].type = "canvas-change")
          => \A i \in 1 .. Len(widgets) : containers[i].id = widgets[i].id

\* an undo brought back a removed placement, and its container was recreated
C23_Witness ==
    /\ last.op = "undo"
    /\ last.ret = "true"
    /\ last.prev = "removeWidget"
    /\ Len(widgets) = 2
    /\ ContainerIds = LiveIds
    /\ \E k \in 1 .. Len(events) : events[k].type = "canvas-change"

\* C24: when an existing wrapper is dragged and dropped, moveWidget is called
\* with the placement's old position plus the pointer's displacement from drag
\* start to drop.
C24_MovedByPointerDelta ==
    [][(Len(made') = 2 /\ made'[2].op = "moveWidget")
          => made'[2].position =
                [x |-> MapGet(widgets, made'[2].id).position.x
                          + (made'[2].to.x - made'[2].from.x),
                 y |-> MapGet(widgets, made'[2].id).position.y
                          + (made'[2].to.y - made'[2].from.y)]]_vars

\* C25: in a resize gesture no engine operation is called and the engine
\* (sizes and history included) is unchanged at the mousedown on the handle
\* and at every mousemove; at the mouseup resizeWidget is called exactly once,
\* with the size the wrapper shows at that moment, and one history entry is
\* appended.
C25_ResizeOnRelease ==
    [][/\ listeners' # <<>> => (made' = <<>> /\ UNCHANGED engineVars)
       /\ (listeners # <<>> /\ listeners' = <<>>)
             => /\ made' = <<[op |-> "resizeWidget", id |-> listeners[1].id,
                              size |-> [width |-> MapGet(containers, listeners[1].id).width,
                                        height |-> MapGet(containers, listeners[1].id).height]]>>
                /\ last'.ret = "true"
                /\ clock' = clock + 1
                /\ historyIndex' = historyIndex + 1]_vars

\* a handle was taken, the pointer moved, and the release resized the placement
C25_Witness ==
    /\ listeners = <<>>
    /\ Len(made) = 1
    /\ made[1].op = "resizeWidget"
    /\ made[1].size = [width |-> 230, height |-> 170]
    /\ last.op = "resizeWidget"
    /\ last.ret = "true"
    /\ MapGet(widgets, made[1].id).size = [width |-> 240, height |-> 180]
    /\ ~MapGet(containers, made[1].id).isResizing

\* the placement the held handle belongs to, among the placements ws
Held(ws) == MapGet(ws, listeners[1].id)

\* C26: a resize gesture moves only the two edges adjacent to the handle's
\* corner: with a west handle the right edge (x + width) stays, with a north
\* handle the bottom edge (y + height) stays, with an east handle the left edge
\* stays and with a south handle the top edge stays.
C26_OppositeEdgesStay ==
    [][(listeners # <<>> /\ listeners' = <<>> /\ MapHas(widgets', listeners[1].id))
          => /\ Includes(listeners[1].corner, "w")
                  => Held(widgets').position.x + Held(widgets').size.width
                        = Held(widgets).position.x + Held(widgets).size.width
             /\ Includes(listeners[1].corner, "n")
                  => Held(widgets').position.y + Held(widgets').size.height
                        = Held(widgets).position.y + Held(widgets).size.height
             /\ Includes(listeners[1].corner, "e")
                  => Held(widgets').position.x = Held(widgets).position.x
             /\ Includes(listeners[1].corner, "s")
                  => Held(widgets').position.y = Held(widgets).position.y]_vars

\* C27: after every engine operation (the widget-select notification of a
\* selection bump included) every wrapper's visual z-index is its placement's
\* zIndex.
C27_VisualZIndex ==
    \A i \in 1 .. Len(containers) :
       MapHas(widgets, containers[i].id)
          => containers[i].zIndex = MapGet(widgets, containers[i].id).zIndex

\* C28: for a placement whose tag the widget factory does not know (create
\* returns null) the Canvas holds exactly one wrapper, of that tag and with an
\* empty content area; a wrapper of a known tag holds its widget; and the
\* wrappers stay one per live placement.
C28_UnknownTagWrapper ==
    /\ \A i \in 1 .. Len(widgets) :
          /\ Cardinality({j \in 1 .. Len(containers) : containers[j].id = widgets[i].id}) = 1
          /\ MapGet(containers, widgets[i].id).tag = widgets[i].tag
          /\ MapGet(containers, widgets[i].id).content = create(widgets[i].tag)
          /\ widgets[i].tag \notin Registered
                => MapGet(containers, widgets[i].id).content = <<>>
    /\ Len(containers) = Len(widgets)

\* a placement of an unknown tag was added next to one of a known tag
C28_Witness ==
    /\ last.op = "addWidget"
    /\ Len(widgets) = 2
    /\ widgets[1].tag = "timer-widget"
    /\ widgets[2].tag = "unknown-widget"
    /\ Len(containers) = 2
    /\ containers[1].content = <<"timer-widget">>
    /\ containers[2].id = widgets[2].id
    /\ containers[2].content = <<>>

\* the entries of props that setProperty accepts: a property of the schema and
\* a value that passes validateProperty
Accepted(props) ==
    {i \in 1 .. Len(props) :
        props[i][1] \in PropNames /\ validateProperty(props[i][1], props[i][2])}

\* at most one frame callback is pending, and one is pending exactly when a
\* render was requested since the last frame
RenderCoalesced ==
    /\ element.frames <= 1
    /\ element.renderPending <=> element.frames = 1
    /\ element.requests > 0 <=> element.frames = 1

\* a frame renders exactly once and changes no property
RendersOnce ==
    (ncalls' = ncalls + 1 /\ element'.op = "frame")
       => /\ element'.renders = element.renders + 1
          /\ element'.properties = element.properties
          /\ element'.shown = element.properties

\* C29: however many changes request a render before a frame, one frame
\* callback is pending and the frame renders once; and when setProperties
\* returns, every accepted value is the value of its property, before any
\* render.
C29_CoalescedRenderImmediateState ==
    /\ []RenderCoalesced
    /\ [][RendersOnce]_vars
    /\ [][(ncalls' = ncalls + 1 /\ element'.op = "setProperties")
             => \A i \in Accepted(element'.props) :
                   element'.properties[element'.props[i][1]] = element'.props[i][2]]_vars

\* C30: a click on pause changes the timer only in state running, which it
\* turns into paused with the interval cleared; while the timer is paused, and
\* when it is resumed, elapsed stays what it was however much time passes; and
\* elapsed never exceeds the time spent in state running, so that time spent
\* paused is never added to it.
C30_PausedTimeNotCounted ==
    /\ [][(ncalls' = ncalls + 1 /\ timer'.op = "pause")
             => IF timer.timerState = "running"
                THEN /\ timer'.timerState = "paused"
                     /\ ~timer'.intervalId
                     /\ timer'.elapsed = timer.elapsed
                ELSE [timer' EXCEPT !.op = timer.op] = timer]_vars
    /\ [][(timer.timerState = "paused" /\ timer'.timerState \in {"paused", "running"})
             => timer'.elapsed = timer.elapsed]_vars
    /\ [](timer.elapsed <= timer.ran)

\* the timer ran, was paused while time passed, was resumed, and has ticked since
C30_Witness ==
    /\ timer.op = "tick"
    /\ timer.timerState = "running"
    /\ timer.pausedFor > 0
    /\ timer.elapsed > 0
    /\ timer.elapsed <= timer.ran
    /\ timer.now >= timer.ran + timer.pausedFor

\* C31: in countdown mode the tick that brings elapsed to the duration moves
\* the running timer to finished, clears its interval and emits timer-finished
\* once; timer-finished is emitted by no other step; a finished timer has no
\* interval and its elapsed no longer changes; and start from finished runs
\* again from elapsed 0.
C31_CountdownFinishes ==
    /\ [][(ncalls' = ncalls + 1 /\ timer'.op = "tick" /\ timer.mode = "countdown"
              /\ timer.elapsed + (timer.now - timer.lastTick) >= duration)
             => /\ timer.timerState = "running"
                /\ timer'.timerState = "finished"
                /\ ~timer'.intervalId
                /\ timer'.finished = timer.finished + 1]_vars
    /\ [][timer'.finished # timer.finished
             => /\ timer'.op = "tick"
                /\ timer'.finished = timer.finished + 1
                /\ timer'.elapsed >= duration]_vars
    /\ [](timer.timerState = "finished" => ~timer.intervalId)
    /\ [][(timer.timerState = "finished" /\ timer'.timerState = "finished")
             => timer'.elapsed = timer.elapsed]_vars
    /\ [][(ncalls' = ncalls + 1 /\ timer'.op = "start" /\ timer.timerState = "finished")
             => /\ timer'.timerState = "running"
                /\ timer'.elapsed = 0
                /\ timer'.intervalId
                /\ timer'.lastTick = timer.now]_vars

\* a countdown ran to its end, and the finished timer was started again
C31_Witness ==
    /\ timer.op = "start"
    /\ timer.finished = 1
    /\ timer.timerState = "running"
    /\ timer.elapsed = 0
    /\ timer.now >= duration
    /\ timer.intervalId

\* C32: the notifications of selectWidget(id) are, in this order, a
\* widget-deselect for the id selected before, if there is one and it is not
\* id, and a widget-select for id, if id is not null: selecting null emits no
\* widget-select, selecting null with nothing selected emits nothing, and
\* selecting the selected id again emits widget-select only.
C32_SelectNotifications ==
    [][(ncalls' = ncalls + 1 /\ last'.op = "selectWidget")
          => events' =
                (IF selectedId # Null /\ selectedId # last'.id
                 THEN <<[type |-> "widget-deselect", widgetId |-> selectedId]>>
                 ELSE <<>>)
                \o (IF last'.id # Null
                    THEN <<[type |-> "widget-select", widgetId |-> last'.id]>>
                    ELSE <<>>)]_vars

\* one placement was selected while another one was: deselect, then select
C32_Witness ==
    /\ last.op = "selectWidget"
    /\ last.prev = "selectWidget"
    /\ Len(events) = 2
    /\ events[1].type = "widget-deselect"
    /\ events[2] = [type |-> "widget-select", widgetId |-> selectedId]
    /\ events[1].widgetId # selectedId
    /\ MapHas(widgets, selectedId)
    /\ MapHas(widgets, events[1].widgetId)

\* a listener of the widget-deselect emitted by selectWidget is running
InDeselectListener ==
    /\ stack # <<>>
    /\ stack[Len(stack)].call.op = "selectWidget"
    /\ stack[Len(stack)].pc = "deselected"

\* C33: an operation whose listeners call the engine a bounded number of times
\* per notification terminates; for selectWidget this requires that a
\* selectWidget call made by a widget-deselect listener, with an id other than
\* the one being deselected, does not deliver that widget-deselect again (else
\* the listener is called again in the same engine state, without end).
C33_NestedSelectTerminates ==
    [][(InDeselectListener /\ nested' = nested + 1 /\ Len(stack') = Len(stack) + 1
           /\ stack'[Len(stack')].call.op = "selectWidget"
           /\ stack'[Len(stack')].call.id # selectedId)
          => ~(/\ stack'[Len(stack')].pc = "deselected"
               /\ events'[Len(events')] = [type |-> "widget-deselect", widgetId |-> selectedId]
               /\ UNCHANGED engineVars)]_vars

AtCursor == history[historyIndex + 1]

Succeeded ==
    \/ last.op \in {"addWidget", "clear", "fromJSON"}
    \/ last.op \in {"removeWidget", "moveWidget", "resizeWidget", "undo", "redo"}
          /\ last.ret = "true"

\* C34: right after a successful addWidget, removeWidget, moveWidget,
\* resizeWidget, clear or fromJSON, and right after a successful undo or redo,
\* the snapshot at the cursor holds the live placements and the live
\* configuration.
C34_CursorSnapshotIsLive ==
    Succeeded => /\ historyIndex + 1 \in 1..Len(history)
                 /\ AtCursor.widgets = widgets
                 /\ AtCursor.config = config

C34_Witness ==
    /\ last.op = "undo" /\ last.ret = "true"
    /\ last.prev \in {"setConfig", "updateWidgetProperties"}
    /\ widgets # <<>>
    /\ AtCursor.widgets = widgets
    /\ AtCursor.config = config
    /\ config # constructor.config

\* the engine after undo() and then redo(), and what redo() returned
UndoThenRedo(e) ==
    LET undone == Run(e, [op |-> "undo", id |-> Null])
    IN Run(undone.e, [op |-> "redo", id |-> Null])

\* C35: in every state in which undo() succeeds, a redo() right after it
\* succeeds and leaves the placements (properties and zIndex included) and
\* the configuration exactly as they were before the undo, also when
\* selectWidget, setConfig or updateWidgetProperties ran since the last
\* history entry.
C35_UndoRedoRoundTrip ==
    canUndo(Engine) => /\ UndoThenRedo(Engine).ret = "true"
                       /\ UndoThenRedo(Engine).e.widgets = widgets
                       /\ UndoThenRedo(Engine).e.config = config

\* C36: in every state reached by engine operations from a new engine the
\* counter is greater than the zIndex of every live placement, and no two live
\* placements have the same zIndex.
C36_ZIndexDistinctBelowCounter ==
    /\ \A i \in 1 .. Len(widgets) : widgets[i].zIndex < nextZIndex
    /\ \A i, j \in 1 .. Len(widgets) :
          widgets[i].zIndex = widgets[j].zIndex => i = j

\* selectWidget has brought the first of two placements to the front
C36_Witness ==
    /\ last.op = "selectWidget"
    /\ Len(widgets) = 2
    /\ selectedId = widgets[1].id
    /\ widgets[1].zIndex > widgets[2].zIndex
    /\ nextZIndex = widgets[1].zIndex + 1

\* C37: after every engine operation a wrapper is shown selected exactly when
\* its id is the engine's selectedId, also after moving or resizing the
\* selected placement and after setConfig or updateWidgetProperties while a
\* placement is selected.
C37_SelectedWrapperIsSelectedId ==
    \A i \in 1 .. Len(containers) :
       containers[i].selected <=> (containers[i].id = selectedId)

\* C38: an interval timer is active exactly when timerState is running, after
\* any sequence of start, pause, reset, toggle-mode, countdown completion,
\* disconnect and reconnect.
C38_IntervalIffRunning == timer.intervalId <=> (timer.timerState = "running")

\* a frame has run: AnimationFrame or RenderingFrame
FrameRan == ncalls' = ncalls + 1 /\ element'.op \in {"frame", "render"}

\* C39: on an initialized widget every accepted property change leaves a frame
\* pending; a pending frame is eventually followed by a render after which the
\* latest property values are shown; every render shows the latest values or
\* leaves a new frame pending; and a change made during a render is not lost:
\* whenever the values shown are not the latest, a frame is pending.
C39_ChangeEventuallyRendered ==
    /\ [][(element.initialized /\ element'.changes > element.changes)
             => element'.renderPending /\ element'.frames > 0]_vars
    /\ (element.initialized /\ element.renderPending)
          ~> (element.op \in {"frame", "render"} /\ ~element.renderPending
                /\ element.shown = element.properties)
    /\ [][FrameRan => /\ element'.renders > element.renders
                      /\ \/ element'.shown = element'.properties
                         \/ (element'.renderPending /\ element'.frames > 0)]_vars
    /\ []((element.initialized /\ element.shown # element.properties)
             => element.renderPending /\ element.frames > 0)

\* a render set a property after reading the values it shows, and a new frame
\* is pending for the change
C39_Witness ==
    /\ element.op = "render"
    /\ element.initialized
    /\ element.renders >= 2
    /\ element.shown # element.properties
    /\ element.renderPending
    /\ element.frames = 1

\* C40: a snapshot in the history, or returned by toJSON, is not changed by
\* later engine operations: what each snapshot still in the history records
\* (placements with their position, size, properties and zIndex, and the
\* configuration) is what it recorded when it was pushed, although its
\* placements share their position, size and properties objects with live
\* placements.
C40_SnapshotsImmutable ==
    /\ Len(heap.pushed) = Len(heap.history)
    /\ \A k \in 1 .. Len(heap.history) :
          Recorded(heap.objs, heap.history[k]) = heap.pushed[k]
    /\ \A k \in 1 .. Len(heap.exported) :
          Recorded(heap.objs, heap.exported[k].snapshot) = heap.exported[k].recorded

\* selectWidget has changed the zIndex of a live placement that shares its
\* position object with the placement of the snapshot at the cursor, two
\* calls after that snapshot was restored or pushed
C40_Witness ==
    /\ heap.op = "selectWidget"
    /\ heap.historyIndex >= 1
    /\ heap.historyIndex < Len(heap.history) - 1
    /\ \E i \in 1 .. Len(heap.widgets) :
          LET snapshot == heap.history[heap.historyIndex + 1]
              live     == heap.objs[heap.widgets[i]]
          IN /\ i <= Len(snapshot.widgets)
             /\ heap.widgets[i] # snapshot.widgets[i]
             /\ live.position = heap.objs[snapshot.widgets[i]].position
             /\ live.zIndex # heap.objs[snapshot.widgets[i]].zIndex

====
